---- MODULE Spec2Model ----
(***************************************************************************)
(* Model of the state-timeline metrics of team-performance-analysis:       *)
(* analyzeTimeInState (metrics/time-in-state.ts) and analyzeFlowEfficiency *)
(* (metrics/flow-efficiency.ts), with the helpers of utils/data-loader.ts. *)
(*                                                                         *)
(* Time is counted in half days (DayUnits units per day), so that the      *)
(* Math.floor of the day computation is exercised.  JavaScript numbers are *)
(* records [nan, num, den]: a rational, or NaN (the getTime() of an        *)
(* Invalid Date and everything computed from it).                          *)
(***************************************************************************)
EXTENDS Integers, Sequences, FiniteSets, TLC

\* ------------------------------------------------------------------ bounds
MaxUpdates == 2     \* update events of the single-item runs
MaxItems == 2       \* work items of the team runs

\* --------------------------------------------------------------- constants
DayUnits == 2       \* 1000 * 60 * 60 * 24 ms, in model time units
MaxDays == 365      \* plausibility bound of an interval, in days
Now == 744          \* new Date() at analysis time

\* ------------------------------------------------------- JavaScript numbers
RECURSIVE Gcd(_, _)
Gcd(a, b) == IF b = 0 THEN a ELSE Gcd(b, a % b)

Abs(x) == IF x < 0 THEN -x ELSE x

NaN == [nan |-> TRUE, num |-> 0, den |-> 1]

Rat(n, d) ==
    LET g == Gcd(Abs(n), d)
    IN  [nan |-> FALSE, num |-> n \div g, den |-> d \div g]

Num(i) == [nan |-> FALSE, num |-> i, den |-> 1]

Plus(a, b) ==
    IF a.nan \/ b.nan THEN NaN
    ELSE Rat(a.num * b.den + b.num * a.den, a.den * b.den)

Minus(a, b) ==
    IF a.nan \/ b.nan THEN NaN
    ELSE Rat(a.num * b.den - b.num * a.den, a.den * b.den)

\* a / n for a count n > 0
DivBy(a, n) == IF a.nan THEN NaN ELSE Rat(a.num, a.den * n)

\* Math.floor(a / n)
FloorDiv(a, n) == IF a.nan THEN NaN ELSE Num(a.num \div (a.den * n))

\* a < b, a > b, a === b: every comparison with NaN is false
Lt(a, b) == ~a.nan /\ ~b.nan /\ a.num * b.den < b.num * a.den
Gt(a, b) == Lt(b, a)
Le(a, b) == ~a.nan /\ ~b.nan /\ a.num * b.den <= b.num * a.den
Ge(a, b) == Le(b, a)
StrictEq(a, b) == ~a.nan /\ ~b.nan /\ a.num * b.den = b.num * a.den

\* !a for a number: 0 and NaN are falsy
Falsy(a) == a.nan \/ a.num = 0

\* ------------------------------------------------ double-precision numbers
\* The trend thresholds multiply by 1.1 and 0.9, which are not binary
\* fractions, so the products are computed as IEEE 754 doubles: a positive
\* double is mant * 2^exp with a 53-bit mantissa, held as five 13-bit limbs,
\* least significant first; every operation rounds to nearest, ties to even.
LimbBits == 13
LimbBase == 8192
MantBits == 53

RECURSIVE Pow2(_)
Pow2(k) == IF k = 0 THEN 1 ELSE 2 * Pow2(k - 1)

RECURSIVE BitLen(_)
BitLen(n) == IF n = 0 THEN 0 ELSE 1 + BitLen(n \div 2)

LimbAt(x, j) == IF j >= 1 /\ j <= Len(x) THEN x[j] ELSE 0

RECURSIVE Trim(_)
Trim(x) ==
    IF Len(x) > 0 /\ x[Len(x)] = 0 THEN Trim(SubSeq(x, 1, Len(x) - 1)) ELSE x

BigBitLen(x) ==
    LET t == Trim(x)
    IN  IF Len(t) = 0 THEN 0 ELSE LimbBits * (Len(t) - 1) + BitLen(t[Len(t)])

\* floor(x / 2^s)
ShiftRight(x, s) ==
    LET a == s \div LimbBits
        r == s % LimbBits
        n == IF Len(x) > a THEN Len(x) - a ELSE 0
    IN  Trim([j \in 1..n |->
                (LimbAt(x, j + a) \div Pow2(r))
                + (LimbAt(x, j + a + 1) % Pow2(r)) * Pow2(LimbBits - r)])

\* bit i of x, bit 0 the least significant
BitAt(x, i) == (LimbAt(x, i \div LimbBits + 1) \div Pow2(i % LimbBits)) % 2

\* the n low bits of x are all 0
LowBitsZero(x, n) ==
    /\ \A j \in 1..(n \div LimbBits) : LimbAt(x, j) = 0
    /\ LimbAt(x, n \div LimbBits + 1) % Pow2(n % LimbBits) = 0

RECURSIVE AddOneFrom(_, _)
AddOneFrom(x, j) ==
    IF j > Len(x) THEN Append(x, 1)
    ELSE IF x[j] + 1 < LimbBase THEN [x EXCEPT ![j] = @ + 1]
    ELSE AddOneFrom([x EXCEPT ![j] = 0], j + 1)

AddOne(x) == AddOneFrom(x, 1)

\* x * y by columns, then the carries
RECURSIVE CarryFrom(_, _, _)
CarryFrom(cols, j, carry) ==
    IF j > Len(cols) THEN IF carry = 0 THEN <<>> ELSE <<carry>>
    ELSE <<(cols[j] + carry) % LimbBase>>
         \o CarryFrom(cols, j + 1, (cols[j] + carry) \div LimbBase)

RECURSIVE ColumnSum(_, _, _, _)
ColumnSum(x, y, k, i) ==
    IF i > Len(x) THEN 0
    ELSE x[i] * LimbAt(y, k - i + 1) + ColumnSum(x, y, k, i + 1)

BigTimes(x, y) ==
    Trim(CarryFrom([k \in 1..(Len(x) + Len(y)) |-> ColumnSum(x, y, k, 1)], 1, 0))

\* x divided by a small m: quotient limbs and remainder, from the top limb
RECURSIVE DivFrom(_, _, _, _)
DivFrom(x, m, j, rem) ==
    IF j = 0 THEN [q |-> <<>>, r |-> rem]
    ELSE LET cur == rem * LimbBase + x[j]
             low == DivFrom(x, m, j - 1, cur % m)
         IN  [q |-> Append(low.q, cur \div m), r |-> low.r]

BigDiv(x, m) == LET d == DivFrom(x, m, Len(x), 0) IN [q |-> Trim(d.q), r |-> d.r]

Zero == [zero |-> TRUE, mant |-> <<>>, exp |-> 0]

\* The double nearest to x * 2^e (ties to even); inexact tells that bits
\* below x were already dropped.
RoundToDouble(x, e, inexact) ==
    LET s == BigBitLen(x) - MantBits
        q == ShiftRight(x, s)
        half == BitAt(x, s - 1) = 1
        rest == ~LowBitsZero(x, s - 1) \/ inexact
        up == half /\ (rest \/ BitAt(q, 0) = 1)
        m == IF up THEN AddOne(q) ELSE q
    IN  IF BigBitLen(m) > MantBits
        THEN [zero |-> FALSE, mant |-> ShiftRight(m, 1), exp |-> e + s + 1]
        ELSE [zero |-> FALSE, mant |-> m, exp |-> e + s]

\* a / n for integers a >= 0 and n > 0, as JavaScript computes it
Quotient(a, n) ==
    IF a = 0 THEN Zero
    ELSE LET d == BigDiv(<<0, 0, 0, 0, 0, 0, a % LimbBase, a \div LimbBase>>, n)
         IN  RoundToDouble(d.q, -(6 * LimbBits), d.r # 0)

\* x * y for doubles x, y >= 0
Product(x, y) ==
    IF x.zero \/ y.zero THEN Zero
    ELSE RoundToDouble(BigTimes(x.mant, y.mant), x.exp + y.exp, FALSE)

\* x < y for naturals of the same bit length, from the top limb
RECURSIVE BigLessFrom(_, _, _)
BigLessFrom(x, y, j) ==
    IF j = 0 THEN FALSE
    ELSE IF x[j] # y[j] THEN x[j] < y[j]
    ELSE BigLessFrom(x, y, j - 1)

\* x < y for doubles x, y >= 0
Less(x, y) ==
    IF y.zero THEN FALSE
    ELSE IF x.zero THEN TRUE
    ELSE IF x.exp # y.exp THEN x.exp < y.exp
    ELSE BigLessFrom(x.mant, y.mant, Len(x.mant))

\* The literals 1.1 and 0.9
OnePointOne == [zero |-> FALSE, mant |-> <<6554, 3276, 1638, 819, 1>>, exp |-> -52]
ZeroPointNine == [zero |-> FALSE, mant |-> <<3277, 1638, 4915, 6553, 1>>, exp |-> -53]

\* ------------------------------------------------------------------- dates
\* A date string of the input: absent, not a date, or an ISO timestamp.
NoDateStr == [kind |-> "missing", time |-> 0]
BadDateStr == [kind |-> "garbage", time |-> 0]
IsoDateStr(t) == [kind |-> "iso", time |-> t]

\* The values parseDate returns: null, an Invalid Date, or a Date.
NullDate == [tag |-> "null", time |-> 0]
InvalidDate == [tag |-> "invalid", time |-> 0]
ValidDate(t) == [tag |-> "date", time |-> t]

\* parseDate: null for a missing string; otherwise new Date(...), which
\* never throws and yields an Invalid Date for a string it cannot parse.
parseDate(dateStr) ==
    IF dateStr.kind = "missing" THEN NullDate
    ELSE IF dateStr.kind = "garbage" THEN InvalidDate
    ELSE ValidDate(dateStr.time)

\* Date.prototype.getTime
getTime(d) == IF d.tag = "date" THEN Num(d.time) ELSE NaN

\* Math.floor((endDate.getTime() - startDate.getTime()) / (1000*60*60*24))
DaysBetween(startDate, endDate) ==
    FloorDiv(Minus(getTime(endDate), getTime(startDate)), DayUnits)

\* ------------------------------------------------------------- field access
\* getAssignedToName: 'Unassigned' when absent, the string itself, or the
\* displayName of the identity object ('Unknown' when it has none).
getAssignedToName(assignedTo) ==
    IF assignedTo.kind = "none" THEN "Unassigned"
    ELSE IF assignedTo.kind = "string" THEN assignedTo.name
    ELSE IF assignedTo.name = "" THEN "Unknown" ELSE assignedTo.name

\* teamMemberNames.includes(name)
Includes(seq, x) == \E k \in 1..Len(seq) : seq[k] = x

\* ----------------------------------------------- insertion-ordered objects
\* A JavaScript object with string keys, in insertion order: a sequence of
\* [key, val] entries with distinct keys.
HasKey(m, k) == \E j \in 1..Len(m) : m[j].key = k

IndexOf(m, k) == CHOOSE j \in 1..Len(m) : m[j].key = k

Get(m, k) == m[IndexOf(m, k)].val

\* m[k] = v
Put(m, k, v) ==
    IF HasKey(m, k)
    THEN [j \in 1..Len(m) |-> IF m[j].key = k THEN [key |-> k, val |-> v] ELSE m[j]]
    ELSE Append(m, [key |-> k, val |-> v])

\* --------------------------------------------------------- timeline builder
\* updatesByItem[id]: the events of one work item, in the order of the input
\* array, then sorted by revision number (Array.prototype.sort is stable).
InsertByRev(sorted, u) ==
    LET k == Cardinality({j \in 1..Len(sorted) : sorted[j].rev <= u.rev})
    IN  SubSeq(sorted, 1, k) \o <<u>> \o SubSeq(sorted, k + 1, Len(sorted))

RECURSIVE SortByRev(_)
SortByRev(s) ==
    IF Len(s) = 0 THEN s
    ELSE InsertByRev(SortByRev(SubSeq(s, 1, Len(s) - 1)), s[Len(s)])

\* The events of one work item left in the order of the input array.
updatesByItemUnsorted(allUpdates, id) ==
    SelectSeq(allUpdates, LAMBDA u : u.workItemId = id)

updatesByItem(allUpdates, id) ==
    SortByRev(SelectSeq(allUpdates, LAMBDA u : u.workItemId = id))

\* update.fields?.['System.State']?.newValue is truthy
HasNewValue(u) == u.hasState /\ u.newValue # ""

\* stateChange.oldValue && stateChange.newValue
IsTransition(u) == u.hasState /\ u.oldValue # "" /\ u.newValue # ""

\* First loop: the first rev-1 event with a new state value seeds the
\* timeline at the creation date, when the creation date is not null.
SeedEntries(item, updates) ==
    LET createdDate == parseDate(item.createdDate)
        S == {j \in 1..Len(updates) : updates[j].rev = 1 /\ HasNewValue(updates[j])}
    IN  IF S = {} \/ createdDate.tag = "null" THEN <<>>
        ELSE LET j == CHOOSE x \in S : \A y \in S : x <= y
             IN  <<[state |-> updates[j].newValue, startDate |-> createdDate]>>

\* Second loop: every event with an old and a new state value appends
\* (newValue, parseDate(revisedDate)) unless parseDate returned null.
RECURSIVE TransitionEntries(_)
TransitionEntries(updates) ==
    IF Len(updates) = 0 THEN <<>>
    ELSE LET u == Head(updates)
             changeDate == parseDate(u.revisedDate)
         IN  (IF IsTransition(u) /\ changeDate.tag # "null"
              THEN <<[state |-> u.newValue, startDate |-> changeDate]>>
              ELSE <<>>) \o TransitionEntries(Tail(updates))

stateTimeline(item, updates) ==
    SeedEntries(item, updates) \o TransitionEntries(updates)

\* ---------------------------------------------------- time-in-state folding
\* if (!stateBreakdown[state]) stateBreakdown[state] = 0;
\* stateBreakdown[state] += days
AddDays(breakdown, state, days) ==
    LET old == IF HasKey(breakdown, state) /\ ~Falsy(Get(breakdown, state))
               THEN Get(breakdown, state) ELSE Num(0)
    IN  Put(breakdown, state, Plus(old, days))

\* The interval is skipped by  daysInState < 0 || daysInState > 365
SkippedPair(days) == Lt(days, Num(0)) \/ Gt(days, Num(MaxDays))

\* The trailing interval is added when  days >= 0 && days <= 365
AcceptedLast(days) == Ge(days, Num(0)) /\ Le(days, Num(MaxDays))

EmptyFold == [stateBreakdown |-> <<>>, totalCycleTime |-> Num(0),
              samples |-> <<>>, added |-> <<>>]

\* for (i = 0; i < stateTimeline.length - 1; i++): samples are the pushes to
\* allStatesTimes / memberTimeInStates, added the durations added to totals.
RECURSIVE FoldPairs(_, _, _)
FoldPairs(tl, i, acc) ==
    IF i > Len(tl) - 1 THEN acc
    ELSE LET state == tl[i].state
             days == DaysBetween(tl[i].startDate, tl[i + 1].startDate)
         IN  IF SkippedPair(days) THEN FoldPairs(tl, i + 1, acc)
             ELSE FoldPairs(tl, i + 1,
                    [stateBreakdown |-> AddDays(acc.stateBreakdown, state, days),
                     totalCycleTime |-> Plus(acc.totalCycleTime, days),
                     samples |-> Append(acc.samples, [key |-> state, val |-> days]),
                     added |-> Append(acc.added, days)])

\* Handle current state: the interval from the last entry to now.
FoldLast(tl, acc) ==
    IF Len(tl) = 0 THEN acc
    ELSE LET lastState == tl[Len(tl)].state
             days == DaysBetween(tl[Len(tl)].startDate, ValidDate(Now))
         IN  IF AcceptedLast(days)
             THEN [acc EXCEPT !.stateBreakdown = AddDays(@, lastState, days),
                              !.totalCycleTime = Plus(@, days),
                              !.added = Append(@, days)]
             ELSE acc

FoldTimeline(tl) == FoldLast(tl, FoldPairs(tl, 1, EmptyFold))

\* allStatesTimes[state].push(days) for every sample, in order
RECURSIVE PushSamples(_, _)
PushSamples(m, samples) ==
    IF Len(samples) = 0 THEN m
    ELSE LET s == Head(samples)
             old == IF HasKey(m, s.key) THEN Get(m, s.key) ELSE <<>>
         IN  PushSamples(Put(m, s.key, Append(old, s.val)), Tail(samples))

\* Find longest state: strict > against a running maximum that starts at 0.
RECURSIVE LongestFrom(_, _, _)
LongestFrom(breakdown, j, best) ==
    IF j > Len(breakdown) THEN best
    ELSE LongestFrom(breakdown, j + 1,
            IF Gt(breakdown[j].val, best.days)
            THEN [state |-> breakdown[j].key, days |-> breakdown[j].val]
            ELSE best)

LongestState(breakdown) ==
    LongestFrom(breakdown, 1, [state |-> "", days |-> Num(0)])

\* times.reduce((sum, t) => sum + t, 0)
RECURSIVE Sum(_)
Sum(times) ==
    IF Len(times) = 0 THEN Num(0)
    ELSE Plus(Sum(SubSeq(times, 1, Len(times) - 1)), times[Len(times)])

Average(times) == DivBy(Sum(times), Len(times))

\* Object.entries(states) -> [state, avg] in insertion order
AvgByState(states) ==
    [j \in 1..Len(states) |-> [key |-> states[j].key, val |-> Average(states[j].val)]]

\* Bottleneck: the same strict-> scan over the averages.
Bottleneck(states) == LongestState(AvgByState(states))

\* --------------------------------------------------- flow-efficiency folding
activeStates == {"Active", "In Progress", "2 - Active", "Resolved",
                 "3 - Resolved", "3.2 - QA in Progress"}
waitStates == {"New", "To Do", "Blocked", "On Hold", "Ready for Test"}

\* active states add to activeTime; wait states and unknown states to waitTime
IsActive(state) == state \in activeStates

AddTime(acc, state, days) ==
    IF IsActive(state)
    THEN [acc EXCEPT !.activeTime = Plus(@, days), !.added = Append(@, days)]
    ELSE [acc EXCEPT !.waitTime = Plus(@, days), !.added = Append(@, days)]

EmptyFlow == [activeTime |-> Num(0), waitTime |-> Num(0), added |-> <<>>]

RECURSIVE FlowPairs(_, _, _)
FlowPairs(tl, i, acc) ==
    IF i > Len(tl) - 1 THEN acc
    ELSE LET days == DaysBetween(tl[i].startDate, tl[i + 1].startDate)
         IN  IF SkippedPair(days) THEN FlowPairs(tl, i + 1, acc)
             ELSE FlowPairs(tl, i + 1, AddTime(acc, tl[i].state, days))

FlowLast(tl, acc) ==
    IF Len(tl) = 0 THEN acc
    ELSE LET days == DaysBetween(tl[Len(tl)].startDate, ValidDate(Now))
         IN  IF AcceptedLast(days) THEN AddTime(acc, tl[Len(tl)].state, days)
             ELSE acc

FlowTimeline(tl) == FlowLast(tl, FlowPairs(tl, 1, EmptyFlow))

\* The ratio left as a fraction, not multiplied by 100.
EfficiencyFraction(activeTime, totalTime) ==
    Rat(activeTime.num, totalTime.num)

\* (activeTime / totalTime) * 100, for totalTime > 0
EfficiencyPct(activeTime, totalTime) ==
    Rat(activeTime.num * 100, totalTime.num)

\* The bands with exclusive lower bounds.
getEfficiencyRatingExclusive(pct) ==
    IF Gt(pct, Num(40)) THEN "Excellent"
    ELSE IF Gt(pct, Num(25)) THEN "Good"
    ELSE IF Gt(pct, Num(15)) THEN "Fair"
    ELSE "Poor"

getEfficiencyRating(pct) ==
    IF Ge(pct, Num(40)) THEN "Excellent"
    ELSE IF Ge(pct, Num(25)) THEN "Good"
    ELSE IF Ge(pct, Num(15)) THEN "Fair"
    ELSE "Poor"

\* ------------------------------------------------------------------ inputs
StateNames == {"New", "Active"}
Revs == {1, 2}
CreatedDates == {NoDateStr, BadDateStr, IsoDateStr(740), IsoDateStr(742)}
RevisedDates == {NoDateStr, BadDateStr, IsoDateStr(0), IsoDateStr(741),
                 IsoDateStr(742), IsoDateStr(745)}

Update(id, rev, date, hasState, old, new) ==
    [workItemId |-> id, rev |-> rev, revisedDate |-> date,
     hasState |-> hasState, oldValue |-> old, newValue |-> new]

\* Events of one item.  An event without a usable state change is never
\* read beyond that test, so one representative of each kind is enough.
UpdateEvents(id) ==
    {Update(id, 2, NoDateStr, FALSE, "", ""),
     Update(id, 2, NoDateStr, TRUE, "New", "")}
    \cup {Update(id, r, NoDateStr, TRUE, "", s) : r \in Revs, s \in StateNames}
    \cup {Update(id, r, d, TRUE, "New", s) :
             r \in Revs, d \in RevisedDates, s \in StateNames}

SeqsUpTo(S, n) == UNION {[1..k -> S] : k \in 0..n}

Assignees == {[kind |-> "none", name |-> ""],
              [kind |-> "string", name |-> "Ann"],
              [kind |-> "object", name |-> "Bob"]}

WorkItem(id, assignedTo, created) ==
    [id |-> id, assignedTo |-> assignedTo, createdDate |-> created]

\* Histories of the team runs: a creation event, then at most one transition.
TeamHistories(id) ==
    LET seed == Update(id, 1, IsoDateStr(740), TRUE, "", "New")
    IN  {<<seed>>}
        \cup {<<seed, Update(id, 2, d, TRUE, "New", s)>> :
                 d \in {BadDateStr, IsoDateStr(741), IsoDateStr(742)},
                 s \in {"Active", "Review"}}

\* Items of the rating runs: created New at c, moved to Active at d, still
\* Active now.  The pairs give 40, 25, 15, 10 and 65 per cent.
BandDates == {<<734, 740>>, <<736, 742>>, <<704, 738>>, <<724, 742>>, <<704, 718>>}

BandHistory(id, cd) ==
    <<Update(id, 1, IsoDateStr(cd[1]), TRUE, "", "New"),
      Update(id, 2, IsoDateStr(cd[2]), TRUE, "New", "Active")>>

\* The orderings of a sequence.
Orderings(seq) ==
    {[j \in 1..Len(seq) |-> seq[p[j]]] :
        p \in {f \in [1..Len(seq) -> 1..Len(seq)] :
                  \A i, j \in 1..Len(seq) : f[i] = f[j] => i = j}}

RECURSIVE Concat(_)
Concat(ss) == IF Len(ss) = 0 THEN <<>> ELSE Head(ss) \o Concat(Tail(ss))

\* ------------------------------------------------------------------- state
VARIABLES
    workItems,            \* input: the work item snapshots
    workItemUpdates,      \* input: the update events, all items together
    teamMemberNames,      \* input: display names of the roster
    pc,                   \* "timeInState", "flowEfficiency" or "done"
    idx,                  \* position of the running metric's item loop
    memberTimeInStates,   \* time-in-state: member -> [states, count]
    workItemBreakdowns,   \* time-in-state: byWorkItem under construction
    allStatesTimes,       \* time-in-state: state -> pooled samples
    tisLocal,             \* time-in-state: locals of the last loop iteration
    tisResult,            \* time-in-state: byMember and overall
    memberEfficiency,     \* flow-efficiency: member -> parallel sample arrays
    workItemEfficiencies, \* flow-efficiency: byWorkItem under construction
    allEfficiencies,      \* flow-efficiency: pooled percentages
    feLocal,              \* flow-efficiency: locals of the last loop iteration
    feResult              \* flow-efficiency: byMember and overall

VARIABLES
    wipItems,             \* daily WIP input: the work item snapshots
    wipUpdates,           \* daily WIP input: the update events
    wipPc,                \* "off", "items", "events", "days" or "done"
    wipIdx,               \* position of the item loop
    wipEvt,               \* position of the update loop of the current item
    currentState,         \* daily WIP: tracked state of the current item
    currentAssignee,      \* daily WIP: tracked assignee of the current item
    activeStartDate,      \* daily WIP: start of the open period, or null
    activePeriods,        \* daily WIP: the periods recorded so far
    wipD,                 \* daily WIP: the day of the snapshot loop
    dailySnapshots,       \* daily WIP: date -> member -> set of item ids
    wipResult             \* daily WIP: byDate and byMember

wipVars == <<wipItems, wipUpdates, wipPc, wipIdx, wipEvt, currentState,
             currentAssignee, activeStartDate, activePeriods, wipD,
             dailySnapshots, wipResult>>

VARIABLES
    sprintItems,          \* sprint analysis input: the work item snapshots
    sprintUpdates,        \* sprint analysis input: the update events
    sprintPc,             \* "off", "items" or "done"
    sprintIdx,            \* position of the item loop
    sprintData,           \* sprint name -> items, planned, added, completed
    sprintResult          \* bySprint, byMember and overall

sprintVars == <<sprintItems, sprintUpdates, sprintPc, sprintIdx, sprintData,
                sprintResult>>

VARIABLES
    velocities,           \* the velocities of the sprints, in bySprint order
    velocityTrend         \* 'increasing', 'stable' or 'decreasing'

trendVars == <<velocities, velocityTrend>>

VARIABLES
    values,               \* calculateStats: the sample
    statsPc,              \* "off", "call" or "done"
    stats                 \* calculateStats: the returned record

statsVars == <<values, statsPc, stats>>

VARIABLES
    historyFile,          \* what the history loader finds: exists, records
    optionsMetrics,       \* options.metrics: 'all', absent, or a list of names
    orchPc,               \* "off", "history", "select", "base", "deep", "save",
                          \* "done" or "rejected"
    historyAvailable,     \* hasHistoryData(historyFile)
    workItemHistory,      \* the loaded update records
    metricsToRun,         \* the names of the metrics to run
    result,               \* the keys of the analysis result and its metadata
    thrower,              \* the metric module that throws in this run, or "none"
    output                \* what the run returns and saves: returned, keys

orchVars == <<historyFile, optionsMetrics, orchPc, historyAvailable,
              workItemHistory, metricsToRun, result, thrower, output>>

VARIABLES
    runNo,                \* 1 in the first run of a metric, 2 in the second
    firstRun              \* the results of the first run

rerunVars == <<runNo, firstRun>>

VARIABLES
    matching,             \* the ids the query matches on the server, in its order
    pageOptions,          \* options: batchSize, maxResults (0 when not set)
    serverFault,          \* the request the server fails, and how: at, kind
    allWorkItems,         \* the ids of the work items fetched so far
    excludedIds,          \* the ids fetched so far, for the NOT IN clause
    hasMore,              \* the loop flag
    iteration,            \* the number of requests made
    pagePc                \* "off", "loop", "done" or "threw"

pageVars == <<matching, pageOptions, serverFault, allWorkItems, excludedIds,
              hasMore, iteration, pagePc>>

VARIABLES
    fileSystem,           \* path -> the file there: exists, content, payload
    workItemsCache,       \* DataCache.cache: path -> present, data, timestamp
    dateNow,              \* Date.now(), in milliseconds
    loadResult            \* the last call of loadWorkItems: what it returned,
                          \* for which path, when, and whether the file existed

loadVars == <<fileSystem, workItemsCache, dateNow, loadResult>>

VARIABLES
    cycleItems,           \* cycle time input: the work items
    cycleRoster,          \* cycle time input: the members' display names
    cyclePc,              \* "off", "original", "optimized" or "done"
    originalResult,       \* what the loop-based analyzeCycleTime returned
    optimizedResult       \* what the optimized analyzeCycleTime returned

cycleVars == <<cycleItems, cycleRoster, cyclePc, originalResult, optimizedResult>>

inputVars == <<workItems, workItemUpdates, teamMemberNames>>
tisVars == <<memberTimeInStates, workItemBreakdowns, allStatesTimes, tisLocal, tisResult>>
feVars == <<memberEfficiency, workItemEfficiencies, allEfficiencies, feLocal, feResult>>
timelineVars == <<inputVars, pc, idx, tisVars, feVars>>

\* What a run of one metric leaves alone: the state of the others.
auxVars == <<wipVars, sprintVars, trendVars, statsVars, orchVars, rerunVars, pageVars, loadVars, cycleVars>>
notWipVars == <<timelineVars, sprintVars, trendVars, statsVars, orchVars, rerunVars, pageVars, loadVars, cycleVars>>
notSprintVars == <<timelineVars, wipVars, trendVars, statsVars, orchVars, rerunVars, pageVars, loadVars, cycleVars>>
notTrendVars == <<timelineVars, wipVars, sprintVars, statsVars, orchVars, rerunVars, pageVars, loadVars, cycleVars>>
notStatsVars == <<timelineVars, wipVars, sprintVars, trendVars, orchVars, rerunVars, pageVars, loadVars, cycleVars>>
notOrchVars == <<timelineVars, wipVars, sprintVars, trendVars, statsVars, rerunVars, pageVars, loadVars, cycleVars>>
notRerunVars == <<timelineVars, wipVars, sprintVars, trendVars, statsVars, orchVars, pageVars, loadVars, cycleVars>>
notPageVars == <<timelineVars, wipVars, sprintVars, trendVars, statsVars, orchVars, rerunVars, loadVars, cycleVars>>
notLoadVars == <<timelineVars, wipVars, sprintVars, trendVars, statsVars, orchVars, rerunVars, pageVars, cycleVars>>
notCycleVars == <<timelineVars, wipVars, sprintVars, trendVars, statsVars, orchVars, rerunVars, pageVars, loadVars>>

vars == <<timelineVars, wipVars, sprintVars, trendVars, statsVars, orchVars, rerunVars, pageVars, loadVars, cycleVars>>

NoLocal == [outcome |-> "none",
            item |-> WorkItem(0, [kind |-> "none", name |-> ""], NoDateStr),
            stateTimeline |-> <<>>, fold |-> EmptyFold, flow |-> EmptyFlow]

Members == {teamMemberNames[k] : k \in 1..Len(teamMemberNames)}

InitRun ==
    /\ teamMemberNames = <<"Ann", "Bob">>
    /\ pc = "timeInState"
    /\ idx = 1
    /\ memberTimeInStates = [m \in {"Ann", "Bob"} |-> [states |-> <<>>, count |-> 0]]
    /\ workItemBreakdowns = <<>>
    /\ allStatesTimes = <<>>
    /\ tisLocal = NoLocal
    /\ tisResult = [byMember |-> <<>>, avgTimeByState |-> <<>>,
                    itemsAnalyzed |-> 0, commonBottleneck |-> ""]
    /\ memberEfficiency = [m \in {"Ann", "Bob"} |->
                             [activeTime |-> <<>>, waitTime |-> <<>>,
                              totalTime |-> <<>>, efficiency |-> <<>>]]
    /\ workItemEfficiencies = <<>>
    /\ allEfficiencies = <<>>
    /\ feLocal = NoLocal
    /\ feResult = [byMember |-> <<>>, avgEfficiencyPct |-> Num(0)]

\* Daily WIP before analyzeDailyWip is called.
WipIdle ==
    /\ wipItems = <<>>
    /\ wipUpdates = <<>>
    /\ wipPc = "off"
    /\ wipIdx = 1
    /\ wipEvt = 0
    /\ currentState = ""
    /\ currentAssignee = ""
    /\ activeStartDate = NullDate
    /\ activePeriods = <<>>
    /\ wipD = 0
    /\ dailySnapshots = <<>>
    /\ wipResult = [byDate |-> <<>>, byMember |-> <<>>]

\* Sprint analysis before analyzeSprintMetrics is called.
SprintIdle ==
    /\ sprintItems = <<>>
    /\ sprintUpdates = <<>>
    /\ sprintPc = "off"
    /\ sprintIdx = 1
    /\ sprintData = <<>>
    /\ sprintResult = [bySprint |-> <<>>, byMember |-> <<>>,
                       overall |-> [totalSprints |-> 0, velocityTrend |-> "stable"]]

TrendIdle == velocities = <<>> /\ velocityTrend = "stable"

\* Before any second run of a metric.
NoFirstRun ==
    [tis |-> [byMember |-> <<>>, avgTimeByState |-> <<>>,
              itemsAnalyzed |-> 0, commonBottleneck |-> ""],
     breakdowns |-> <<>>,
     fe |-> [byMember |-> <<>>, avgEfficiencyPct |-> Num(0)],
     efficiencies |-> <<>>,
     wip |-> [byDate |-> <<>>, byMember |-> <<>>],
     updates |-> <<>>]

RerunIdle == runNo = 1 /\ firstRun = NoFirstRun

\* queryAllWorkItemsById before it is called.
PageIdle ==
    /\ matching = <<>>
    /\ pageOptions = [batchSize |-> 0, maxResults |-> 0]
    /\ serverFault = [at |-> 0, kind |-> "limit"]
    /\ allWorkItems = <<>>
    /\ excludedIds = <<>>
    /\ hasMore = TRUE
    /\ iteration = 0
    /\ pagePc = "off"

\* The files loadWorkItems is called for.
Paths == {"a.json", "b.json"}

NoFile == [exists |-> FALSE, content |-> "none", payload |-> 0]
NoEntry == [present |-> FALSE, data |-> 0, timestamp |-> 0]
NoLoad == [kind |-> "none", path |-> "", data |-> 0, error |-> "",
           existed |-> FALSE, at |-> 0]

\* The process has just started: the cache is empty and nothing was loaded.
LoadIdle ==
    /\ fileSystem = [p \in Paths |-> NoFile]
    /\ workItemsCache = [p \in Paths |-> NoEntry]
    /\ dateNow = 0
    /\ loadResult = NoLoad

NoCycleResult == [byMember |-> <<>>, byMonth |-> <<>>, byType |-> <<>>]

\* analyzeCycleTime before it is called.
CycleIdle ==
    /\ cycleItems = <<>>
    /\ cycleRoster = <<>>
    /\ cyclePc = "off"
    /\ originalResult = NoCycleResult
    /\ optimizedResult = NoCycleResult

\* calculateStats before it is called.
NoStats == [avg |-> Num(0), median |-> 0, min |-> 0, max |-> 0, count |-> 0]

StatsIdle == values = <<>> /\ statsPc = "off" /\ stats = NoStats

\* The orchestrator before analyzeTeamPerformance is called.
OrchIdle ==
    /\ historyFile = [exists |-> FALSE, records |-> <<>>]
    /\ optionsMetrics = [kind |-> "absent", names |-> {}]
    /\ orchPc = "off"
    /\ historyAvailable = FALSE
    /\ workItemHistory = <<>>
    /\ metricsToRun = {}
    /\ result = [historyDataAvailable |-> FALSE, keys |-> {}]
    /\ thrower = "none"
    /\ output = [returned |-> FALSE, keys |-> {}]

\* The timeline metrics before they are called, without input.
TimelineIdle == InitRun /\ workItems = <<>> /\ workItemUpdates = <<>>

\* One work item of a team member, with any creation date and any history
\* of at most MaxUpdates events.
InitSingle ==
    /\ \E c \in CreatedDates :
          workItems = <<WorkItem(1, [kind |-> "string", name |-> "Ann"], c)>>
    /\ workItemUpdates \in SeqsUpTo(UpdateEvents(1), MaxUpdates)

\* Up to MaxItems work items, assigned or not, each with a short history.
InitTeam ==
    \E n \in 1..MaxItems :
       \E as \in [1..n -> Assignees] :
          \E hs \in [1..n -> UNION {TeamHistories(k) : k \in 1..n}] :
             /\ \A k \in 1..n : hs[k] \in TeamHistories(k)
             /\ workItems = [k \in 1..n |-> WorkItem(k, as[k], IsoDateStr(740))]
             /\ workItemUpdates = Concat(hs)

\* Up to MaxItems work items of the two members, each with a wait period
\* and an active period of chosen lengths.
InitBands ==
    \E n \in 1..MaxItems :
       \E as \in [1..n -> {a \in Assignees : a.kind # "none"}] :
          \E cds \in [1..n -> BandDates] :
             /\ workItems = [k \in 1..n |-> WorkItem(k, as[k], IsoDateStr(cds[k][1]))]
             /\ workItemUpdates = Concat([k \in 1..n |-> BandHistory(k, cds[k])])

Init ==
    /\ InitRun /\ (InitSingle \/ InitTeam \/ InitBands)
    /\ WipIdle /\ SprintIdle /\ TrendIdle /\ StatsIdle /\ OrchIdle /\ RerunIdle /\ PageIdle /\ LoadIdle /\ CycleIdle

\* ------------------------------------------------------ analyzeTimeInState
\* The length test off by one.
TooShortOffByOne(tl) == Len(tl) < 1

\* if (stateTimeline.length < 2) continue
TooShort(tl) == Len(tl) < 2

\* if (totalCycleTime === 0) continue
NoTimeData(total) == StrictEq(total, Num(0))

\* The loop body for one work item, up to the continue that ends it.
TisOutcome(item, updates, tl, fold) ==
    IF ~Includes(teamMemberNames, getAssignedToName(item.assignedTo)) THEN "notMember"
    ELSE IF Len(updates) = 0 THEN "noHistory"
    ELSE IF TooShort(tl) THEN "short"
    ELSE IF NoTimeData(fold.totalCycleTime) THEN "zero"
    ELSE "included"

\* One iteration of  for (const item of workItems)  in analyzeTimeInState.
TisItem ==
    /\ pc = "timeInState"
    /\ idx <= Len(workItems)
    /\ \E item \in {workItems[idx]} :
       \E updates \in {updatesByItem(workItemUpdates, item.id)} :
       \E tl \in {stateTimeline(item, updates)} :
       \E fold \in {FoldTimeline(tl)} :
       LET assignedName == getAssignedToName(item.assignedTo)
           outcome == TisOutcome(item, updates, tl, fold)
           folded == outcome \in {"zero", "included"}
           longest == LongestState(fold.stateBreakdown)
       IN  /\ tisLocal' = [outcome |-> outcome, item |-> item,
                           stateTimeline |-> IF outcome \in {"notMember", "noHistory"}
                                             THEN <<>> ELSE tl,
                           fold |-> IF folded THEN fold ELSE EmptyFold,
                           flow |-> EmptyFlow]
           /\ allStatesTimes' = IF folded THEN PushSamples(allStatesTimes, fold.samples)
                                ELSE allStatesTimes
           /\ memberTimeInStates' =
                 IF folded
                 THEN [memberTimeInStates EXCEPT ![assignedName] =
                         [states |-> PushSamples(@.states, fold.samples),
                          count |-> IF outcome = "included" THEN @.count + 1 ELSE @.count]]
                 ELSE memberTimeInStates
           /\ workItemBreakdowns' =
                 IF outcome = "included"
                 THEN Append(workItemBreakdowns,
                        [id |-> item.id, assignedTo |-> assignedName,
                         totalCycleTime |-> fold.totalCycleTime,
                         stateBreakdown |-> fold.stateBreakdown,
                         longestState |-> longest.state,
                         longestStateDays |-> longest.days])
                 ELSE workItemBreakdowns
    /\ idx' = idx + 1
    /\ UNCHANGED <<inputVars, pc, tisResult, feVars>>
    /\ UNCHANGED auxVars

\* After the loop: member averages and overall averages, then the result.
TisFinish ==
    /\ pc = "timeInState"
    /\ idx > Len(workItems)
    /\ tisResult' =
          [byMember |->
              [m \in {x \in Members : memberTimeInStates[x].count # 0} |->
                  [avgTimeInStates |-> AvgByState(memberTimeInStates[m].states),
                   totalItems |-> memberTimeInStates[m].count,
                   bottleneckState |-> Bottleneck(memberTimeInStates[m].states).state,
                   bottleneckAvgDays |-> Bottleneck(memberTimeInStates[m].states).days]],
           avgTimeByState |-> AvgByState(allStatesTimes),
           itemsAnalyzed |-> Len(workItemBreakdowns),
           commonBottleneck |-> Bottleneck(allStatesTimes).state]
    /\ pc' = "flowEfficiency"
    /\ idx' = 1
    /\ UNCHANGED <<inputVars, memberTimeInStates, workItemBreakdowns,
                   allStatesTimes, tisLocal, feVars>>
    /\ UNCHANGED auxVars

\* --------------------------------------------------- analyzeFlowEfficiency
\* if (activeTime === 0 && waitTime === 0) continue; then if (totalTime > 0)
FeOutcome(item, updates, tl, flow) ==
    IF ~Includes(teamMemberNames, getAssignedToName(item.assignedTo)) THEN "notMember"
    ELSE IF Len(updates) = 0 THEN "noHistory"
    ELSE IF TooShort(tl) THEN "short"
    ELSE IF StrictEq(flow.activeTime, Num(0)) /\ StrictEq(flow.waitTime, Num(0)) THEN "zero"
    ELSE IF Gt(Plus(flow.activeTime, flow.waitTime), Num(0)) THEN "included"
    ELSE "notPositive"

\* One iteration of  for (const item of workItems)  in analyzeFlowEfficiency.
FeItem ==
    /\ pc = "flowEfficiency"
    /\ idx <= Len(workItems)
    /\ \E item \in {workItems[idx]} :
       \E updates \in {updatesByItem(workItemUpdates, item.id)} :
       \E tl \in {stateTimeline(item, updates)} :
       \E flow \in {FlowTimeline(tl)} :
       LET assignedName == getAssignedToName(item.assignedTo)
           outcome == FeOutcome(item, updates, tl, flow)
           totalTime == Plus(flow.activeTime, flow.waitTime)
           efficiencyPct == EfficiencyPct(flow.activeTime, totalTime)
       IN  /\ feLocal' = [outcome |-> outcome, item |-> item,
                          stateTimeline |-> IF outcome \in {"notMember", "noHistory"}
                                            THEN <<>> ELSE tl,
                          fold |-> EmptyFold,
                          flow |-> IF outcome \in {"notMember", "noHistory", "short"}
                                   THEN EmptyFlow ELSE flow]
           /\ IF outcome = "included"
              THEN /\ memberEfficiency' = [memberEfficiency EXCEPT ![assignedName] =
                         [activeTime |-> Append(@.activeTime, flow.activeTime),
                          waitTime |-> Append(@.waitTime, flow.waitTime),
                          totalTime |-> Append(@.totalTime, totalTime),
                          efficiency |-> Append(@.efficiency, efficiencyPct)]]
                   /\ allEfficiencies' = Append(allEfficiencies, efficiencyPct)
                   /\ workItemEfficiencies' = Append(workItemEfficiencies,
                         [id |-> item.id, assignedTo |-> assignedName,
                          activeTime |-> flow.activeTime, waitTime |-> flow.waitTime,
                          totalTime |-> totalTime, efficiencyPct |-> efficiencyPct])
              ELSE UNCHANGED <<memberEfficiency, allEfficiencies, workItemEfficiencies>>
    /\ idx' = idx + 1
    /\ UNCHANGED <<inputVars, pc, feResult, tisVars>>
    /\ UNCHANGED auxVars

\* After the loop: member statistics and the overall average.
FeFinish ==
    /\ pc = "flowEfficiency"
    /\ idx > Len(workItems)
    /\ feResult' =
          [byMember |->
              [m \in {x \in Members : Len(memberEfficiency[x].efficiency) # 0} |->
                  [avgEfficiencyPct |-> Average(memberEfficiency[m].efficiency),
                   avgActiveTime |-> Average(memberEfficiency[m].activeTime),
                   avgWaitTime |-> Average(memberEfficiency[m].waitTime),
                   avgTotalTime |-> Average(memberEfficiency[m].totalTime),
                   itemsAnalyzed |-> Len(memberEfficiency[m].efficiency),
                   efficiencyRating |->
                      getEfficiencyRating(Average(memberEfficiency[m].efficiency))]],
           avgEfficiencyPct |-> IF Len(allEfficiencies) > 0
                                THEN Average(allEfficiencies) ELSE Num(0)]
    /\ pc' = "done"
    /\ UNCHANGED <<inputVars, idx, tisVars, memberEfficiency,
                   workItemEfficiencies, allEfficiencies, feLocal>>
    /\ UNCHANGED auxVars

Next == TisItem \/ TisFinish \/ FeItem \/ FeFinish

Spec == Init /\ [][Next]_vars

\* ------------------------------------------------------------ analyzeDailyWip
\* const activeStates = ['Active', 'In Progress', '2 - Active', '3 - Resolved']
wipActiveStates == {"Active", "In Progress", "2 - Active", "3 - Resolved"}

\* The requested range: startDate and endDate, both at midnight.
WipStartDate == IsoDateStr(740)
WipEndDate == IsoDateStr(746)

\* An assigned-person value: the string form for Ann and Zed, the identity
\* object for Bob, absent for nobody.
Person(name) ==
    IF name = "" THEN [kind |-> "none", name |-> ""]
    ELSE IF name = "Bob" THEN [kind |-> "object", name |-> name]
    ELSE [kind |-> "string", name |-> name]

\* typeof newValue === 'string' ? newValue : newValue?.displayName || ''
NewAssigneeName(v) == IF v.kind = "none" THEN "" ELSE v.name

NoChange == [has |-> FALSE, old |-> "", new |-> ""]
Change(old, new) == [has |-> TRUE, old |-> old, new |-> new]

\* An update event with its System.State and System.AssignedTo changes.
WipUpdate(id, rev, date, st, asg) ==
    [workItemId |-> id, rev |-> rev, revisedDate |-> date,
     hasState |-> st.has, oldValue |-> st.old, newValue |-> st.new,
     hasAssign |-> asg.has, assignOld |-> Person(asg.old),
     assignNew |-> Person(asg.new)]

WipItem(id, assignee, state, created) ==
    [id |-> id, assignedTo |-> Person(assignee), state |-> state,
     createdDate |-> created]

WipStates == {"New", "Active"}
WipPeople == {"Ann", "Bob", "Zed"}
WipTimes == {741, 742, 743}

\* The changes one revision can carry when the item is in state s, assigned
\* to a: the state, the assignee, or both.
WipChanges(s, a) ==
    LET sts == {Change(s, n) : n \in WipStates \ {s}}
        asgs == {Change(a, n) : n \in WipPeople \ {a}}
    IN  (sts \X {NoChange}) \cup ({NoChange} \X asgs) \cup (sts \X asgs)

\* The histories of at most k revisions that continue, at revision rev, an
\* item in state s assigned to a and last changed at time t.
RECURSIVE WipContinuations(_, _, _, _, _, _)
WipContinuations(id, rev, s, a, t, k) ==
    IF k = 0 THEN {<<>>}
    ELSE {<<>>} \cup
         UNION {
            {<<WipUpdate(id, rev, IsoDateStr(u), c[1], c[2])>> \o rest :
                rest \in WipContinuations(id, rev + 1,
                            IF c[1].has THEN c[1].new ELSE s,
                            IF c[2].has THEN c[2].new ELSE a, u, k - 1)} :
            c \in WipChanges(s, a), u \in {x \in WipTimes : x >= t}}

\* A work item created at 740 in state s0 for a0 (or nobody), with its history
\* and the snapshot that the history ends in.
WipCase(id, s0, a0, rest) ==
    LET first == WipUpdate(id, 1, IsoDateStr(740), Change("", s0),
                           IF a0 = "" THEN NoChange ELSE Change("", a0))
        hist == <<first>> \o rest
        S == {j \in 1..Len(hist) : hist[j].hasState}
        A == {j \in 1..Len(hist) : hist[j].hasAssign}
        lastOf(X) == CHOOSE j \in X : \A y \in X : y <= j
    IN  [item |-> WipItem(id, IF A = {} THEN "" ELSE hist[lastOf(A)].assignNew.name,
                          hist[lastOf(S)].newValue, IsoDateStr(740)),
         updates |-> hist]

WipCases(id, k) ==
    UNION {{WipCase(id, s0, a0, rest) :
               rest \in WipContinuations(id, 2, s0, a0, 740, k)} :
           s0 \in WipStates, a0 \in WipPeople \cup {""}}

\* Histories of the team runs: created Active for a member, then nothing, an
\* exit from Active, or a reassignment to the other member.
WipTeamCases(id) ==
    UNION {{WipCase(id, "Active", a, <<>>)}
           \cup {WipCase(id, "Active", a,
                    <<WipUpdate(id, 2, IsoDateStr(u), c[1], c[2])>>) :
                 u \in {742, 743},
                 c \in {<<Change("Active", "New"), NoChange>>,
                        <<NoChange, Change(a, IF a = "Ann" THEN "Bob" ELSE "Ann")>>}} :
           a \in {"Ann", "Bob"}}

\* analyzeDailyWip is entered with its inputs; the timeline metrics stay idle.
InitWipRun ==
    /\ TimelineIdle
    /\ wipPc = "items"
    /\ wipIdx = 1
    /\ wipEvt = 0
    /\ currentState = ""
    /\ currentAssignee = ""
    /\ activeStartDate = NullDate
    /\ activePeriods = <<>>
    /\ wipD = 0
    /\ dailySnapshots = <<>>
    /\ wipResult = [byDate |-> <<>>, byMember |-> <<>>]

InitWipSingle ==
    \E c \in WipCases(1, MaxUpdates) :
       /\ wipItems = <<c.item>>
       /\ wipUpdates = c.updates

InitWipTeam ==
    \E n \in 2..MaxItems :
       \E cs \in [1..n -> UNION {WipTeamCases(k) : k \in 1..n}] :
          /\ \A k \in 1..n : cs[k] \in WipTeamCases(k)
          /\ wipItems = [k \in 1..n |-> cs[k].item]
          /\ wipUpdates = Concat([k \in 1..n |-> cs[k].updates])

InitWip ==
    /\ InitWipRun /\ (InitWipSingle \/ InitWipTeam)
    /\ SprintIdle /\ TrendIdle /\ StatsIdle /\ OrchIdle /\ RerunIdle /\ PageIdle /\ LoadIdle /\ CycleIdle

Period(id, assignee, start, end) ==
    [workItemId |-> id, assignedTo |-> assignee, startDate |-> start,
     endDate |-> end]

\* The locals of the item loop: [state, assignee, start, periods].
\* if (update.fields?.['System.State']) { ... }
AfterStateChange(id, u, updateDate, loc) ==
    IF ~u.hasState THEN loc
    ELSE LET wasActive == u.oldValue \in wipActiveStates
             isActive == u.newValue \in wipActiveStates
             pushed == wasActive /\ ~isActive /\ loc.start.tag # "null"
         IN  [state |-> u.newValue,
              assignee |-> loc.assignee,
              start |-> IF ~wasActive /\ isActive THEN updateDate
                        ELSE IF pushed THEN NullDate ELSE loc.start,
              periods |-> IF pushed
                          THEN Append(loc.periods,
                                 Period(id, loc.assignee, loc.start, updateDate))
                          ELSE loc.periods]

\* The assignment change without the restart of the open period.
AfterAssignChangeNoRestart(id, u, updateDate, loc) ==
    LET newAssignee == NewAssigneeName(u.assignNew)
    IN  IF ~u.hasAssign \/ newAssignee = "" \/ newAssignee = loc.assignee THEN loc
        ELSE [state |-> loc.state,
              assignee |-> newAssignee,
              start |-> loc.start,
              periods |-> IF loc.start.tag # "null" /\ loc.state \in wipActiveStates
                          THEN Append(loc.periods,
                                 Period(id, loc.assignee, loc.start, updateDate))
                          ELSE loc.periods]

\* if (update.fields?.['System.AssignedTo']) { ... }
AfterAssignChange(id, u, updateDate, loc) ==
    LET newAssignee == NewAssigneeName(u.assignNew)
    IN  IF ~u.hasAssign \/ newAssignee = "" \/ newAssignee = loc.assignee THEN loc
        ELSE [state |-> loc.state,
              assignee |-> newAssignee,
              start |-> IF loc.state \in wipActiveStates THEN updateDate
                        ELSE loc.start,
              periods |-> IF loc.start.tag # "null" /\ loc.state \in wipActiveStates
                          THEN Append(loc.periods,
                                 Period(id, loc.assignee, loc.start, updateDate))
                          ELSE loc.periods]

\* The item of the item loop and its events, sorted by revision.
WipCurrent == wipItems[wipIdx]
WipCurrentUpdates == updatesByItem(wipUpdates, WipCurrent.id)

\* for (const item of workItems): the member test and the initial locals.
WipBeginItem ==
    /\ wipPc = "items"
    /\ wipIdx <= Len(wipItems)
    /\ LET item == WipCurrent
           assignedName == getAssignedToName(item.assignedTo)
           createdDate == parseDate(item.createdDate)
       IN  IF ~Includes(teamMemberNames, assignedName)
           THEN /\ wipIdx' = wipIdx + 1
                /\ UNCHANGED <<wipPc, wipEvt, currentState, currentAssignee,
                               activeStartDate>>
           ELSE /\ wipPc' = "events"
                /\ wipEvt' = 1
                /\ currentState' = item.state
                /\ currentAssignee' = assignedName
                /\ activeStartDate' =
                      IF item.state \in wipActiveStates /\ createdDate.tag # "null"
                      THEN createdDate ELSE NullDate
                /\ UNCHANGED wipIdx
    /\ UNCHANGED <<wipItems, wipUpdates, activePeriods, wipD, dailySnapshots,
                   wipResult>>
    /\ UNCHANGED notWipVars

\* for (const update of updates): one update event of the current item.
WipEvent ==
    /\ wipPc = "events"
    /\ wipEvt <= Len(WipCurrentUpdates)
    /\ LET u == WipCurrentUpdates[wipEvt]
           updateDate == parseDate(u.revisedDate)
           loc == [state |-> currentState, assignee |-> currentAssignee,
                   start |-> activeStartDate, periods |-> activePeriods]
           new == IF updateDate.tag = "null" THEN loc
                  ELSE AfterAssignChange(WipCurrent.id, u, updateDate,
                          AfterStateChange(WipCurrent.id, u, updateDate, loc))
       IN  /\ currentState' = new.state
           /\ currentAssignee' = new.assignee
           /\ activeStartDate' = new.start
           /\ activePeriods' = new.periods
    /\ wipEvt' = wipEvt + 1
    /\ UNCHANGED <<wipItems, wipUpdates, wipPc, wipIdx, wipD, dailySnapshots,
                   wipResult>>
    /\ UNCHANGED notWipVars

\* Handle currently active items, then the next item.
WipEndItem ==
    /\ wipPc = "events"
    /\ wipEvt > Len(WipCurrentUpdates)
    /\ activePeriods' =
          IF activeStartDate.tag # "null" /\ currentState \in wipActiveStates
          THEN Append(activePeriods,
                 Period(WipCurrent.id, currentAssignee, activeStartDate, NullDate))
          ELSE activePeriods
    /\ wipPc' = "items"
    /\ wipIdx' = wipIdx + 1
    /\ wipEvt' = 0
    /\ UNCHANGED <<wipItems, wipUpdates, currentState, currentAssignee,
                   activeStartDate, wipD, dailySnapshots, wipResult>>
    /\ UNCHANGED notWipVars

\* After the item loop: const start = parseDate(startDate) || ...; d = start
WipBeginDays ==
    /\ wipPc = "items"
    /\ wipIdx > Len(wipItems)
    /\ wipPc' = "days"
    /\ wipD' = parseDate(WipStartDate).time
    /\ UNCHANGED <<wipItems, wipUpdates, wipIdx, wipEvt, currentState,
                   currentAssignee, activeStartDate, activePeriods,
                   dailySnapshots, wipResult>>
    /\ UNCHANGED notWipVars

\* The test with the bounds of the period excluded.
OnDateExclusive(d, period) ==
    LET periodEnd == IF period.endDate.tag = "null" THEN ValidDate(Now)
                     ELSE period.endDate
    IN  /\ Gt(Num(d), getTime(period.startDate))
        /\ Lt(Num(d), getTime(periodEnd))

\* d >= periodStart && d <= periodEnd, with now for a null end
OnDate(d, period) ==
    LET periodEnd == IF period.endDate.tag = "null" THEN ValidDate(Now)
                     ELSE period.endDate
    IN  /\ Ge(Num(d), getTime(period.startDate))
        /\ Le(Num(d), getTime(periodEnd))

\* for (d = start; d <= end; d.setDate(d.getDate() + 1)): one day's snapshot.
WipDay ==
    /\ wipPc = "days"
    /\ wipD <= parseDate(WipEndDate).time
    /\ dailySnapshots' = Append(dailySnapshots,
          [date |-> wipD,
           members |-> [m \in Members |->
              {activePeriods[j].workItemId :
                  j \in {x \in 1..Len(activePeriods) :
                            /\ activePeriods[x].assignedTo = m
                            /\ OnDate(wipD, activePeriods[x])}}]])
    /\ wipD' = wipD + DayUnits
    /\ UNCHANGED <<wipItems, wipUpdates, wipPc, wipIdx, wipEvt, currentState,
                   currentAssignee, activeStartDate, activePeriods, wipResult>>
    /\ UNCHANGED notWipVars

\* if (wip > maxWip) { maxWip = wip; maxWipDate = date }, over the dates
RECURSIVE MaxWipFrom(_, _, _)
MaxWipFrom(counts, j, best) ==
    IF j > Len(counts) THEN best
    ELSE MaxWipFrom(counts, j + 1,
            IF counts[j].wip > best.maxWip
            THEN [maxWip |-> counts[j].wip, maxWipDate |-> counts[j].date]
            ELSE best)

RECURSIVE SumInts(_)
SumInts(ws) == IF Len(ws) = 0 THEN 0 ELSE Head(ws) + SumInts(Tail(ws))

\* After the day loop: byDate, then the member statistics.
WipFinish ==
    /\ wipPc = "days"
    /\ wipD > parseDate(WipEndDate).time
    /\ LET wipOf(m) == [j \in 1..Len(dailySnapshots) |->
                           [date |-> dailySnapshots[j].date,
                            wip |-> Cardinality(dailySnapshots[j].members[m])]]
           counts(m) == [j \in 1..Len(dailySnapshots) |-> wipOf(m)[j].wip]
       IN  wipResult' =
              [byDate |->
                  [j \in 1..Len(dailySnapshots) |->
                      [date |-> dailySnapshots[j].date,
                       memberWip |-> [m \in Members |->
                                        Cardinality(dailySnapshots[j].members[m])],
                       totalWip |-> SumInts([k \in 1..Len(teamMemberNames) |->
                          Cardinality(dailySnapshots[j].members[teamMemberNames[k]])])]],
               byMember |->
                  [m \in Members |->
                      [avgWip |-> IF Len(dailySnapshots) > 0
                                  THEN Rat(SumInts(counts(m)), Len(dailySnapshots))
                                  ELSE Num(0),
                       maxWip |-> MaxWipFrom(wipOf(m), 1,
                                     [maxWip |-> 0, maxWipDate |-> 0]).maxWip,
                       maxWipDate |-> MaxWipFrom(wipOf(m), 1,
                                     [maxWip |-> 0, maxWipDate |-> 0]).maxWipDate,
                       totalDaysTracked |-> Len(dailySnapshots)]]]
    /\ wipPc' = "done"
    /\ UNCHANGED <<wipItems, wipUpdates, wipIdx, wipEvt, currentState,
                   currentAssignee, activeStartDate, activePeriods, wipD,
                   dailySnapshots>>
    /\ UNCHANGED notWipVars

NextWip ==
    WipBeginItem \/ WipEvent \/ WipEndItem \/ WipBeginDays \/ WipDay \/ WipFinish

SpecWip == InitWip /\ [][NextWip]_vars

\* ------------------------------------------------------ analyzeSprintMetrics
\* An iteration path is the sequence of its backslash-separated segments;
\* the empty sequence stands for an absent or empty path.
\* extractSprintName: 'No Sprint', or the last segment, or 'Unknown'.
extractSprintName(iterationPath) ==
    IF Len(iterationPath) = 0 THEN "No Sprint"
    ELSE IF iterationPath[Len(iterationPath)] = "" THEN "Unknown"
    ELSE iterationPath[Len(iterationPath)]

\* ['Done', '5 - Done', 'Closed'].includes(state)
completedStates == {"Done", "5 - Done", "Closed"}

SprintUpdate(id, rev, date, hasIter, newIter) ==
    [workItemId |-> id, rev |-> rev, revisedDate |-> date,
     hasIter |-> hasIter, newIter |-> newIter]

SprintWorkItem(id, assignee, path, created, state) ==
    [id |-> id, assignedTo |-> Person(assignee), iterationPath |-> path,
     createdDate |-> created, state |-> state]

\* The first update, in revision order, whose new iteration path names the
\* sprint: its position, or 0.
FirstSprintUpdate(updates, sprintName) ==
    LET S == {j \in 1..Len(updates) :
                 /\ updates[j].hasIter
                 /\ Len(updates[j].newIter) > 0
                 /\ extractSprintName(updates[j].newIter) = sprintName}
    IN  IF S = {} THEN 0 ELSE CHOOSE j \in S : \A k \in S : j <= k

\* if (firstSprintDate && createdDate) { daysDiff = Math.floor(...);
\* if (daysDiff > 3) added else planned } else planned
AddedMidSprint(item, updates) ==
    LET j == FirstSprintUpdate(updates, extractSprintName(item.iterationPath))
        firstSprintDate == IF j = 0 THEN NullDate ELSE parseDate(updates[j].revisedDate)
        createdDate == parseDate(item.createdDate)
    IN  /\ firstSprintDate.tag # "null"
        /\ createdDate.tag # "null"
        /\ Gt(DaysBetween(createdDate, firstSprintDate), Num(3))

EmptySprint == [items |-> <<>>, plannedItems |-> {}, addedItems |-> {},
                completedItems |-> {}]

\* The body of the first item loop for an item of a team member.
SprintDataAfter(data, item, updates) ==
    LET sprintName == extractSprintName(item.iterationPath)
        old == IF HasKey(data, sprintName) THEN Get(data, sprintName) ELSE EmptySprint
        added == AddedMidSprint(item, updates)
    IN  Put(data, sprintName,
            [items |-> Append(old.items, item.id),
             plannedItems |-> IF added THEN old.plannedItems
                              ELSE old.plannedItems \cup {item.id},
             addedItems |-> IF added THEN old.addedItems \cup {item.id}
                            ELSE old.addedItems,
             completedItems |-> IF item.state \in completedStates
                                THEN old.completedItems \cup {item.id}
                                ELSE old.completedItems])

\* The first item loop over a whole array of work items.
RECURSIVE SprintDataOf(_, _, _)
SprintDataOf(items, updates, data) ==
    IF Len(items) = 0 THEN data
    ELSE SprintDataOf(Tail(items), updates,
            IF Includes(teamMemberNames, getAssignedToName(Head(items).assignedTo))
            THEN SprintDataAfter(data, Head(items),
                                 updatesByItem(updates, Head(items).id))
            ELSE data)

\* (part / total) * 100, or 0 when total is 0
Percentage(part, total) == IF total > 0 THEN Rat(part * 100, total) ELSE Num(0)

\* Calculate sprint metrics: one entry for each sprint, in insertion order.
BySprint(data) ==
    [j \in 1..Len(data) |->
        LET d == data[j].val
            totalItems == Len(d.items)
            completedItems == Cardinality(d.completedItems)
            unplannedItems == Cardinality(d.addedItems)
        IN  [key |-> data[j].key,
             val |-> [sprintName |-> data[j].key,
                      totalItems |-> totalItems,
                      completedItems |-> completedItems,
                      completionRate |-> Percentage(completedItems, totalItems),
                      unplannedItems |-> unplannedItems,
                      unplannedRatio |-> Percentage(unplannedItems, totalItems),
                      carryoverItems |-> totalItems - completedItems,
                      velocity |-> completedItems]]]

\* The second item loop: sprintCounts, sprintCompleted and sprintUnplanned of
\* one member, as one map  sprint -> [count, completed, unplanned].
RECURSIVE MemberSprintData(_, _, _, _)
MemberSprintData(items, member, data, acc) ==
    IF Len(items) = 0 THEN acc
    ELSE LET item == Head(items)
             sprintName == extractSprintName(item.iterationPath)
             old == IF HasKey(acc, sprintName) /\ Get(acc, sprintName).count # 0
                    THEN Get(acc, sprintName)
                    ELSE [count |-> 0, completed |-> 0, unplanned |-> 0]
             unplanned == /\ HasKey(data, sprintName)
                          /\ item.id \in Get(data, sprintName).addedItems
         IN  MemberSprintData(Tail(items), member, data,
                IF getAssignedToName(item.assignedTo) # member THEN acc
                ELSE Put(acc, sprintName,
                        [count |-> old.count + 1,
                         completed |-> IF item.state \in completedStates
                                       THEN old.completed + 1 ELSE old.completed,
                         unplanned |-> IF unplanned THEN old.unplanned + 1
                                       ELSE old.unplanned]))

\* Find best/worst sprints: strict comparisons against 0 and 100.
RECURSIVE BestWorstFrom(_, _, _, _)
BestWorstFrom(sprints, rates, i, acc) ==
    IF i > Len(sprints) THEN acc
    ELSE LET better == Gt(rates[i], acc.bestRate)
             worse == Lt(rates[i], acc.worstRate)
         IN  BestWorstFrom(sprints, rates, i + 1,
                [bestSprint |-> IF better THEN sprints[i] ELSE acc.bestSprint,
                 bestRate |-> IF better THEN rates[i] ELSE acc.bestRate,
                 worstSprint |-> IF worse THEN sprints[i] ELSE acc.worstSprint,
                 worstRate |-> IF worse THEN rates[i] ELSE acc.worstRate])

BestWorst(sprints, rates) ==
    BestWorstFrom(sprints, rates, 1,
        [bestSprint |-> "", bestRate |-> Num(0),
         worstSprint |-> "", worstRate |-> Num(100)])

MemberSprintMetrics(data) ==
    LET sprints == [j \in 1..Len(data) |-> data[j].key]
        completionRates == [j \in 1..Len(data) |->
                               Percentage(data[j].val.completed, data[j].val.count)]
        unplannedRatios == [j \in 1..Len(data) |->
                               Percentage(data[j].val.unplanned, data[j].val.count)]
        counts == [j \in 1..Len(data) |-> data[j].val.count]
        bw == BestWorst(sprints, completionRates)
    IN  [totalSprints |-> Len(sprints),
         avgItemsPerSprint |-> Rat(SumInts(counts), Len(sprints)),
         avgCompletionRate |-> Average(completionRates),
         avgUnplannedRatio |-> Average(unplannedRatios),
         bestSprint |-> bw.bestSprint,
         worstSprint |-> bw.worstSprint]

\* Determine velocity trend: first half against second half, from 4 sprints.
VelocityTrend(vs) ==
    IF Len(vs) < 4 THEN "stable"
    ELSE LET midpoint == Len(vs) \div 2
             firstHalfAvg == Quotient(SumInts(SubSeq(vs, 1, midpoint)), midpoint)
             secondHalfAvg == Quotient(SumInts(SubSeq(vs, midpoint + 1, Len(vs))),
                                       Len(vs) - midpoint)
         IN  IF Less(Product(firstHalfAvg, OnePointOne), secondHalfAvg)
             THEN "increasing"
             ELSE IF Less(secondHalfAvg, Product(firstHalfAvg, ZeroPointNine))
             THEN "decreasing"
             ELSE "stable"

\* sprintNames.map(s => bySprint[s].velocity)
VelocitiesOf(bySprint) == [j \in 1..Len(bySprint) |-> bySprint[j].val.velocity]

\* Everything after the first item loop.
SprintResultOf(items, data) ==
    LET bySprint == BySprint(data)
        member(m) == MemberSprintData(items, m, data, <<>>)
    IN  [bySprint |-> bySprint,
         byMember |-> [m \in {x \in Members : Len(member(x)) # 0} |->
                          MemberSprintMetrics(member(m))],
         overall |-> [totalSprints |-> Len(bySprint),
                      velocityTrend |-> VelocityTrend(VelocitiesOf(bySprint))]]

\* ------------------------------------------------------------ sprint inputs
MaxSprintItems == 4     \* work items of the sprint team runs
MaxSprints == 6         \* sprints of the trend runs

SprintNames == <<"Sprint 1", "Sprint 2", "Sprint 3", "Sprint 4",
                 "Sprint 5", "Sprint 6", "Sprint 7", "Sprint 8">>

SprintPath(k) == <<"Proj", SprintNames[k]>>

SprintDates == {NoDateStr, BadDateStr, IsoDateStr(732), IsoDateStr(736),
                IsoDateStr(737), IsoDateStr(738), IsoDateStr(748)}

\* What one revision of the single-item runs can carry: no iteration change,
\* or a move into Sprint 5 or Sprint 4 at one of the dates.
SprintEvents ==
    {[date |-> NoDateStr, hasIter |-> FALSE, newIter |-> <<>>]}
    \cup {[date |-> d, hasIter |-> TRUE, newIter |-> SprintPath(k)] :
             d \in SprintDates, k \in {4, 5}}

\* One work item of Ann in Sprint 5, created at 730 or without a usable
\* creation date, with a history of at most MaxUpdates revisions.
InitSprintSingle ==
    /\ \E c \in {IsoDateStr(730), NoDateStr, BadDateStr} :
          sprintItems = <<SprintWorkItem(1, "Ann", SprintPath(5), c, "Active")>>
    /\ \E es \in SeqsUpTo(SprintEvents, MaxUpdates) :
          sprintUpdates = [j \in 1..Len(es) |->
                             SprintUpdate(1, j, es[j].date, es[j].hasIter, es[j].newIter)]

\* What a work item of the team runs can be: a completed item of Ann in one
\* of four sprints, an open item of Ann in Sprint 1 or 2, or a completed item
\* of Bob in Sprint 1.
SprintTeamItems ==
    {[assignee |-> "Ann", sprint |-> k, state |-> "Done"] : k \in 1..4}
    \cup {[assignee |-> "Ann", sprint |-> k, state |-> "Active"] : k \in 1..2}
    \cup {[assignee |-> "Bob", sprint |-> 1, state |-> "Done"]}

InitSprintTeam ==
    /\ \E n \in 2..MaxSprintItems :
          \E its \in [1..n -> SprintTeamItems] :
             sprintItems = [k \in 1..n |->
                SprintWorkItem(k, its[k].assignee, SprintPath(its[k].sprint),
                               IsoDateStr(730), its[k].state)]
    /\ sprintUpdates = <<>>

InitSprint ==
    /\ TimelineIdle /\ WipIdle /\ TrendIdle /\ StatsIdle /\ OrchIdle /\ RerunIdle /\ PageIdle /\ LoadIdle /\ CycleIdle
    /\ sprintPc = "items"
    /\ sprintIdx = 1
    /\ sprintData = <<>>
    /\ sprintResult = [bySprint |-> <<>>, byMember |-> <<>>,
                       overall |-> [totalSprints |-> 0, velocityTrend |-> "stable"]]
    /\ (InitSprintSingle \/ InitSprintTeam)

\* One iteration of the first  for (const item of workItems).
SprintItem ==
    /\ sprintPc = "items"
    /\ sprintIdx <= Len(sprintItems)
    /\ LET item == sprintItems[sprintIdx]
       IN  sprintData' =
              IF Includes(teamMemberNames, getAssignedToName(item.assignedTo))
              THEN SprintDataAfter(sprintData, item,
                                   updatesByItem(sprintUpdates, item.id))
              ELSE sprintData
    /\ sprintIdx' = sprintIdx + 1
    /\ UNCHANGED <<sprintItems, sprintUpdates, sprintPc, sprintResult>>
    /\ UNCHANGED notSprintVars

\* After the loop: sprint metrics, member metrics, overall metrics.
SprintFinish ==
    /\ sprintPc = "items"
    /\ sprintIdx > Len(sprintItems)
    /\ sprintResult' = SprintResultOf(sprintItems, sprintData)
    /\ sprintPc' = "done"
    /\ UNCHANGED <<sprintItems, sprintUpdates, sprintIdx, sprintData>>
    /\ UNCHANGED notSprintVars

NextSprint == SprintItem \/ SprintFinish

SpecSprint == InitSprint /\ [][NextSprint]_vars

\* ------------------------------------------------------ the velocity trend
\* The velocities of up to MaxSprints sprints, all around 10 or all around
\* 16 completed items.
VelocityLevels == {{9, 10, 11}, {15, 16, 17}}

InitTrend ==
    /\ TimelineIdle /\ WipIdle /\ SprintIdle /\ StatsIdle /\ OrchIdle /\ RerunIdle /\ PageIdle /\ LoadIdle /\ CycleIdle
    /\ \E level \in VelocityLevels : velocities \in SeqsUpTo(level, MaxSprints)
    /\ velocityTrend = "none"

\* let velocityTrend = 'stable'; if (velocities.length >= 4) { ... }
TrendStep ==
    /\ velocityTrend = "none"
    /\ velocityTrend' = VelocityTrend(velocities)
    /\ UNCHANGED velocities
    /\ UNCHANGED notTrendVars

NextTrend == TrendStep

SpecTrend == InitTrend /\ [][NextTrend]_vars

\* ------------------------------------------------------------ calculateStats
\* [...values].sort((a, b) => a - b): the sample in ascending order.
InsertAscending(sorted, v) ==
    LET k == Cardinality({j \in 1..Len(sorted) : sorted[j] <= v})
    IN  SubSeq(sorted, 1, k) \o <<v>> \o SubSeq(sorted, k + 1, Len(sorted))

RECURSIVE SortAscending(_)
SortAscending(vs) ==
    IF Len(vs) = 0 THEN <<>>
    ELSE InsertAscending(SortAscending(SubSeq(vs, 1, Len(vs) - 1)), vs[Len(vs)])

\* The lower of the two middle elements for an even count.
MedianOfLower(sorted) == sorted[((Len(sorted) - 1) \div 2) + 1]

\* sorted[Math.floor(sorted.length / 2)], with positions counted from 1.
MedianOf(sorted) == sorted[(Len(sorted) \div 2) + 1]

calculateStats(vs) ==
    IF Len(vs) = 0 THEN NoStats
    ELSE LET sorted == SortAscending(vs)
         IN  [avg |-> Rat(SumInts(vs), Len(vs)),
              median |-> MedianOf(sorted),
              min |-> sorted[1],
              max |-> sorted[Len(sorted)],
              count |-> Len(vs)]

MaxSample == 4          \* numbers of a sample

\* The numbers of a sample: ages in whole days, also of an item created in
\* the future.
StatValues == {-1, 1, 2, 3, 4}

InitStats ==
    /\ TimelineIdle /\ WipIdle /\ SprintIdle /\ TrendIdle /\ OrchIdle /\ RerunIdle /\ PageIdle /\ LoadIdle /\ CycleIdle
    /\ values \in SeqsUpTo(StatValues, MaxSample)
    /\ statsPc = "call"
    /\ stats = NoStats

CalculateStats ==
    /\ statsPc = "call"
    /\ stats' = calculateStats(values)
    /\ statsPc' = "done"
    /\ UNCHANGED values
    /\ UNCHANGED notStatsVars

NextStats == CalculateStats

SpecStats == InitStats /\ [][NextStats]_vars

\* ---------------------------------------------------- analyzeTeamPerformance
baseMetrics == {"cycleTime", "estimationAccuracy", "workItemAge",
                "workPatterns", "stateDistribution", "reopenedItems"}

\* historyAvailable ? ['timeInState', 'dailyWip', 'flowEfficiency',
\* 'sprintAnalysis'] : []
deepMetrics(available) ==
    IF available
    THEN {"timeInState", "dailyWip", "flowEfficiency", "sprintAnalysis"}
    ELSE {}

\* The second name under which a metric can be requested.
SnakeCase(name) ==
    CASE name = "cycleTime" -> "cycle_time"
      [] name = "estimationAccuracy" -> "estimation_accuracy"
      [] name = "workItemAge" -> "work_item_age"
      [] name = "workPatterns" -> "work_patterns"
      [] name = "stateDistribution" -> "state_distribution"
      [] name = "reopenedItems" -> "reopened_items"
      [] name = "timeInState" -> "time_in_state"
      [] name = "dailyWip" -> "daily_wip"
      [] name = "flowEfficiency" -> "flow_efficiency"
      [] name = "sprintAnalysis" -> "sprint_analysis"

\* metricsToRun.includes(name) || metricsToRun.includes(snake_name)
Requested(toRun, name) == name \in toRun \/ SnakeCase(name) \in toRun

\* options.metrics === 'all' || !options.metrics ? [...base, ...deep]
\* : options.metrics
MetricsToRun(options, available) ==
    IF options.kind \in {"all", "absent"}
    THEN baseMetrics \cup deepMetrics(available)
    ELSE options.names

\* The test without the length of the history.
DeepGateAvailableOnly(available, history) == available

\* if (historyAvailable && workItemHistory.length > 0)
DeepGate(available, history) == available /\ Len(history) > 0

MaxHistory == 2         \* update records of the history file

\* The names a caller lists in options.metrics.
RequestNames == {"cycleTime", "work_item_age",
                 "timeInState", "time_in_state", "dailyWip", "daily_wip",
                 "flowEfficiency", "flow_efficiency",
                 "sprintAnalysis", "sprint_analysis"}

\* What the history loader can find: no history data, or a file with any
\* number of update records, here their revision numbers.
HistoryFiles ==
    {[exists |-> FALSE, records |-> <<>>]}
    \cup {[exists |-> TRUE, records |-> [j \in 1..n |-> j]] : n \in 0..MaxHistory}

\* The metric modules in the order in which the run calls them.
baseOrder == <<"cycleTime", "estimationAccuracy", "workItemAge",
               "workPatterns", "stateDistribution", "reopenedItems">>
deepOrder == <<"timeInState", "dailyWip", "flowEfficiency", "sprintAnalysis">>

\* The module that throws on the data of this run, if any.
Throwers == {"none", "workItemAge", "timeInState", "sprintAnalysis"}

\* The calls of the requested modules of an order, up to the first one that
\* throws: the keys assigned to the result, and whether a call threw.  No
\* call is wrapped in a try block.
RunMetrics(order, toRun, thr) ==
    LET T == {j \in 1..Len(order) : order[j] = thr /\ Requested(toRun, order[j])}
        stop == IF T = {} THEN Len(order) + 1 ELSE CHOOSE j \in T : \A k \in T : j <= k
    IN  [keys |-> {order[j] : j \in {k \in 1..(stop - 1) : Requested(toRun, order[k])}},
         threw |-> T # {}]

InitOrch ==
    /\ TimelineIdle /\ WipIdle /\ SprintIdle /\ TrendIdle /\ StatsIdle /\ RerunIdle /\ PageIdle /\ LoadIdle /\ CycleIdle
    /\ historyFile \in HistoryFiles
    /\ optionsMetrics \in
          {[kind |-> "all", names |-> {}], [kind |-> "absent", names |-> {}]}
          \cup {[kind |-> "list", names |-> ns] : ns \in SUBSET RequestNames}
    /\ orchPc = "history"
    /\ historyAvailable = FALSE
    /\ workItemHistory = <<>>
    /\ metricsToRun = {}
    /\ result = [historyDataAvailable |-> FALSE, keys |-> {}]
    /\ thrower \in Throwers
    /\ output = [returned |-> FALSE, keys |-> {}]

\* Load work item history (for deep metrics).
OrchLoadHistory ==
    /\ orchPc = "history"
    /\ historyAvailable' = historyFile.exists
    /\ workItemHistory' = IF historyFile.exists THEN historyFile.records ELSE <<>>
    /\ orchPc' = "select"
    /\ UNCHANGED <<historyFile, optionsMetrics, metricsToRun, result, thrower, output>>
    /\ UNCHANGED notOrchVars

\* Determine which metrics to run, and initialize the result.
OrchSelectMetrics ==
    /\ orchPc = "select"
    /\ metricsToRun' = MetricsToRun(optionsMetrics, historyAvailable)
    /\ result' = [historyDataAvailable |-> historyAvailable, keys |-> {}]
    /\ orchPc' = "base"
    /\ UNCHANGED <<historyFile, optionsMetrics, historyAvailable, workItemHistory,
                   thrower, output>>
    /\ UNCHANGED notOrchVars

\* The six base metrics: each one requested is run and placed in the result;
\* an exception leaves the function at once.
OrchBaseMetrics ==
    /\ orchPc = "base"
    /\ LET run == RunMetrics(baseOrder, metricsToRun, thrower)
       IN  /\ result' = [result EXCEPT !.keys = @ \cup run.keys]
           /\ orchPc' = IF run.threw THEN "rejected" ELSE "deep"
    /\ UNCHANGED <<historyFile, optionsMetrics, historyAvailable, workItemHistory,
                   metricsToRun, thrower, output>>
    /\ UNCHANGED notOrchVars

\* The deep metrics, behind the history test.
OrchDeepMetrics ==
    /\ orchPc = "deep"
    /\ LET run == IF DeepGate(historyAvailable, workItemHistory)
                  THEN RunMetrics(deepOrder, metricsToRun, thrower)
                  ELSE [keys |-> {}, threw |-> FALSE]
       IN  /\ result' = [result EXCEPT !.keys = @ \cup run.keys]
           /\ orchPc' = IF run.threw THEN "rejected" ELSE "save"
    /\ UNCHANGED <<historyFile, optionsMetrics, historyAvailable, workItemHistory,
                   metricsToRun, thrower, output>>
    /\ UNCHANGED notOrchVars

\* Save results, then return result.
OrchSave ==
    /\ orchPc = "save"
    /\ output' = [returned |-> TRUE, keys |-> result.keys]
    /\ orchPc' = "done"
    /\ UNCHANGED <<historyFile, optionsMetrics, historyAvailable, workItemHistory,
                   metricsToRun, result, thrower>>
    /\ UNCHANGED notOrchVars

NextOrch ==
    OrchLoadHistory \/ OrchSelectMetrics \/ OrchBaseMetrics \/ OrchDeepMetrics
    \/ OrchSave

SpecOrch == InitOrch /\ [][NextOrch]_vars

\* ------------------------------------------------- the same metric run twice
\* The timeline metrics are called a second time with the same arguments:
\* every accumulator is a local of the call and starts empty again.
TimelineRerunKeepingSamples ==
    /\ pc = "done"
    /\ wipPc = "off"
    /\ runNo = 1
    /\ runNo' = 2
    /\ firstRun' = [firstRun EXCEPT !.tis = tisResult,
                                    !.breakdowns = workItemBreakdowns,
                                    !.fe = feResult,
                                    !.efficiencies = workItemEfficiencies]
    /\ pc' = "timeInState"
    /\ idx' = 1
    /\ workItemBreakdowns' = <<>>
    /\ tisLocal' = NoLocal
    /\ tisResult' = NoFirstRun.tis
    /\ workItemEfficiencies' = <<>>
    /\ feLocal' = NoLocal
    /\ feResult' = NoFirstRun.fe
    /\ UNCHANGED <<inputVars, memberTimeInStates, allStatesTimes,
                   memberEfficiency, allEfficiencies>>
    /\ UNCHANGED <<wipVars, sprintVars, trendVars, statsVars, orchVars, pageVars, loadVars, cycleVars>>

TimelineSecondRun(updates) ==
    /\ pc = "done"
    /\ wipPc = "off"
    /\ runNo = 1
    /\ runNo' = 2
    /\ firstRun' = [firstRun EXCEPT !.tis = tisResult,
                                    !.breakdowns = workItemBreakdowns,
                                    !.fe = feResult,
                                    !.efficiencies = workItemEfficiencies,
                                    !.updates = workItemUpdates]
    /\ workItemUpdates' = updates
    /\ pc' = "timeInState"
    /\ idx' = 1
    /\ memberTimeInStates' = [m \in Members |-> [states |-> <<>>, count |-> 0]]
    /\ workItemBreakdowns' = <<>>
    /\ allStatesTimes' = <<>>
    /\ tisLocal' = NoLocal
    /\ tisResult' = NoFirstRun.tis
    /\ memberEfficiency' = [m \in Members |->
                               [activeTime |-> <<>>, waitTime |-> <<>>,
                                totalTime |-> <<>>, efficiency |-> <<>>]]
    /\ workItemEfficiencies' = <<>>
    /\ allEfficiencies' = <<>>
    /\ feLocal' = NoLocal
    /\ feResult' = NoFirstRun.fe
    /\ UNCHANGED <<workItems, teamMemberNames>>
    /\ UNCHANGED <<wipVars, sprintVars, trendVars, statsVars, orchVars, pageVars, loadVars, cycleVars>>

TimelineRerun == TimelineSecondRun(workItemUpdates)

\* analyzeDailyWip is called a second time, with the given update events.
WipSecondRun(updates) ==
    /\ wipPc = "done"
    /\ runNo = 1
    /\ runNo' = 2
    /\ firstRun' = [firstRun EXCEPT !.wip = wipResult, !.updates = wipUpdates]
    /\ wipUpdates' = updates
    /\ wipPc' = "items"
    /\ wipIdx' = 1
    /\ wipEvt' = 0
    /\ currentState' = ""
    /\ currentAssignee' = ""
    /\ activeStartDate' = NullDate
    /\ activePeriods' = <<>>
    /\ wipD' = 0
    /\ dailySnapshots' = <<>>
    /\ wipResult' = NoFirstRun.wip
    /\ UNCHANGED wipItems
    /\ UNCHANGED <<timelineVars, sprintVars, trendVars, statsVars, orchVars, pageVars, loadVars, cycleVars>>

\* analyzeDailyWip is called a second time with the same arguments.
WipRerun == WipSecondRun(wipUpdates)

MaxRerunItems == 2      \* work items of the runs that are repeated

\* Up to MaxRerunItems work items of the two members, each with a wait
\* period and an active period of chosen lengths.
InitRerunBands ==
    \E n \in 1..MaxRerunItems :
       \E as \in [1..n -> {a \in Assignees : a.kind # "none"}] :
          \E cds \in [1..n -> BandDates] :
             /\ workItems = [k \in 1..n |-> WorkItem(k, as[k], IsoDateStr(cds[k][1]))]
             /\ workItemUpdates = Concat([k \in 1..n |-> BandHistory(k, cds[k])])

\* The run is of the timeline metrics or of the daily WIP.
InitTwice ==
    /\ runNo = 1
    /\ firstRun = NoFirstRun
    /\ SprintIdle /\ TrendIdle /\ StatsIdle /\ OrchIdle /\ PageIdle /\ LoadIdle /\ CycleIdle
    /\ \/ InitRun /\ InitRerunBands /\ WipIdle
       \/ InitWipRun /\ InitWipSingle

NextTwice ==
    \/ wipPc = "off" /\ (TisItem \/ TisFinish \/ FeItem \/ FeFinish \/ TimelineRerun)
    \/ wipPc # "off" /\ (NextWip \/ WipRerun)

SpecTwice == InitTwice /\ [][NextTwice]_vars

\* ------------------------------------- the update events in another order
MaxPermUpdates == 1     \* update events after the first two of a history

\* The events of one work item after its creation event: two with revision
\* 2 and two with revision 3.
PermEvents ==
    {Update(1, 2, IsoDateStr(741), TRUE, "New", "Active"),
     Update(1, 2, IsoDateStr(742), TRUE, "Active", "New"),
     Update(1, 3, IsoDateStr(743), TRUE, "New", "Active"),
     Update(1, 3, IsoDateStr(742), TRUE, "Active", "New")}

\* One work item of Ann with a creation event and up to MaxPermUpdates + 1
\* further events, in any order of the array.
InitPermTimeline ==
    /\ workItems = <<WorkItem(1, [kind |-> "string", name |-> "Ann"], IsoDateStr(740))>>
    /\ \E rest \in SeqsUpTo(PermEvents, MaxPermUpdates + 1) :
          workItemUpdates \in
             Orderings(<<Update(1, 1, IsoDateStr(740), TRUE, "", "New")>> \o rest)

InitPermWip ==
    \E c \in WipCases(1, MaxPermUpdates) :
       /\ wipItems = <<c.item>>
       /\ wipUpdates = c.updates

InitPerm ==
    /\ runNo = 1
    /\ firstRun = NoFirstRun
    /\ TrendIdle /\ StatsIdle /\ OrchIdle /\ PageIdle /\ LoadIdle /\ CycleIdle
    /\ \/ InitRun /\ InitPermTimeline /\ WipIdle /\ SprintIdle
       \/ InitWipRun /\ InitPermWip /\ SprintIdle
       \/ /\ TimelineIdle /\ WipIdle
          /\ sprintPc = "items"
          /\ sprintIdx = 1
          /\ sprintData = <<>>
          /\ sprintResult = [bySprint |-> <<>>, byMember |-> <<>>,
                             overall |-> [totalSprints |-> 0,
                                          velocityTrend |-> "stable"]]
          /\ InitSprintSingle

\* The metric is called again with the same events in another order.
TimelinePermutedRerun ==
    \E updates \in Orderings(workItemUpdates) : TimelineSecondRun(updates)

WipPermutedRerun ==
    \E updates \in Orderings(wipUpdates) : WipSecondRun(updates)

NextPerm ==
    \/ /\ wipPc = "off" /\ sprintPc = "off"
       /\ (TisItem \/ TisFinish \/ FeItem \/ FeFinish \/ TimelinePermutedRerun)
    \/ wipPc # "off" /\ (NextWip \/ WipPermutedRerun)
    \/ sprintPc # "off" /\ NextSprint

SpecPerm == InitPerm /\ [][NextPerm]_vars

\* ------------------------------------------ paging through a large result
\* ado-large-data.ts: queryAllWorkItemsById fetches the matching work items
\* batch by batch, excluding the ids it already holds with a NOT IN clause.

\* The most ids of one request, and the most ids of one NOT IN clause.
MaxBatchSize == 1000
NotInWindow == 1000

\* The matching sets tried hold 0, MatchStep, 2 * MatchStep, ... ids, and one
\* more or less; a run is followed for MaxIterations requests.
MatchStep == 250
MaxMatchSteps == 8
MaxIterations == 6

MinOf(a, b) == IF a < b THEN a ELSE b

\* array.slice(-n): the last n elements, or all of them.
SliceLast(seq, n) ==
    IF Len(seq) <= n THEN seq ELSE SubSeq(seq, Len(seq) - n + 1, Len(seq))

\* The elements of an array.
IdsOf(seq) == {seq[j] : j \in 1..Len(seq)}

\* Math.min(options.batchSize || 1000, 1000)
BatchSizeOf(options) ==
    MinOf(IF options.batchSize = 0 THEN 1000 ELSE options.batchSize, MaxBatchSize)

\* maxResults is options.maxResults || Number.MAX_SAFE_INTEGER: without the
\* option the limit is never reached.
MaxResultsSet(options) == options.maxResults # 0

BelowMaxResults ==
    ~MaxResultsSet(pageOptions) \/ Len(allWorkItems) < pageOptions.maxResults

\* Math.min(batchSize, maxResults - allWorkItems.length)
CurrentBatchSize ==
    IF MaxResultsSet(pageOptions)
    THEN MinOf(BatchSizeOf(pageOptions), pageOptions.maxResults - Len(allWorkItems))
    ELSE BatchSizeOf(pageOptions)

\* The ids of the NOT IN clause of a request made with these ids excluded.
NotInIds(excluded) == SliceLast(excluded, NotInWindow)

\* The server's answer to SELECT ... AND [System.Id] NOT IN (ids) with
\* top: the first top matching work items whose id is not in ids.
QueryWorkItems(ids, top) ==
    LET notIn == IdsOf(ids)
        left == SelectSeq(matching, LAMBDA id : id \notin notIn)
    IN  SubSeq(left, 1, MinOf(top, Len(left)))

\* One turn of the while loop: one request and what is done with its answer.
PageFetch ==
    /\ pagePc = "loop"
    /\ hasMore /\ BelowMaxResults
    /\ iteration < MaxIterations
    /\ iteration' = iteration + 1
    /\ IF serverFault.at = iteration + 1
       THEN /\ hasMore' = (serverFault.kind # "limit" /\ hasMore)
            /\ pagePc' = IF serverFault.kind = "limit" THEN "loop" ELSE "threw"
            /\ UNCHANGED <<allWorkItems, excludedIds>>
       ELSE LET answer == QueryWorkItems(NotInIds(excludedIds), CurrentBatchSize)
            IN  /\ pagePc' = "loop"
                /\ IF Len(answer) = 0
                   THEN /\ hasMore' = FALSE
                        /\ UNCHANGED <<allWorkItems, excludedIds>>
                   ELSE /\ allWorkItems' = allWorkItems \o answer
                        /\ excludedIds' = excludedIds \o answer
                        /\ hasMore' = (Len(answer) >= CurrentBatchSize /\ hasMore)
    /\ UNCHANGED <<matching, pageOptions, serverFault>>
    /\ UNCHANGED notPageVars

\* The loop is left and { workItems: allWorkItems, ... } is returned.
PageReturn ==
    /\ pagePc = "loop"
    /\ ~(hasMore /\ BelowMaxResults)
    /\ pagePc' = "done"
    /\ UNCHANGED <<matching, pageOptions, serverFault, allWorkItems,
                   excludedIds, hasMore, iteration>>
    /\ UNCHANGED notPageVars

MatchCounts ==
    {n \in 0..(MatchStep * MaxMatchSteps + 1) :
        \E k \in 0..MaxMatchSteps : n \in {MatchStep * k - 1, MatchStep * k,
                                            MatchStep * k + 1}}

InitPage ==
    /\ \E n \in MatchCounts : matching = [j \in 1..n |-> j]
    /\ pageOptions \in [batchSize : {0, 300, 500, 2000},
                        maxResults : {0, 750, 2500}]
    /\ serverFault \in [at : 0..2, kind : {"limit", "other"}]
    /\ serverFault.at = 0 => serverFault.kind = "limit"
    /\ allWorkItems = <<>>
    /\ excludedIds = <<>>
    /\ hasMore = TRUE
    /\ iteration = 0
    /\ pagePc = "loop"
    /\ TimelineIdle /\ WipIdle /\ SprintIdle /\ TrendIdle /\ StatsIdle /\ OrchIdle /\ LoadIdle /\ CycleIdle
    /\ RerunIdle

NextPage == PageFetch \/ PageReturn

SpecPage == InitPage /\ [][NextPage]_vars

\* ------------------------------------------------ loading the work items
\* data-loader.ts: loadWorkItems, with the cache of validation.ts in front
\* of the file system.

\* new DataCache(600): ttl = ttlSeconds * 1000
TtlSeconds == 600
Ttl == TtlSeconds * 1000

\* The clock moves in steps of TickMs, at most MaxTicks times; a file of
\* work items holds one of MaxPayload arrays.
TickMs == 300000
MaxTicks == 4
MaxPayload == 1

FileStates ==
    {NoFile}
    \cup {[exists |-> TRUE, content |-> "items", payload |-> d] : d \in 1..MaxPayload}
    \cup {[exists |-> TRUE, content |-> c, payload |-> 0] :
             c \in {"emptyArray", "object", "garbage"}}

\* DataCache.get without the expiry check.
CacheGetNoExpiry(cache, key, now) ==
    [cache |-> cache,
     data |-> IF cache[key].present THEN cache[key].data ELSE 0]

\* DataCache.get: the data of an entry no older than ttl; an older entry
\* is deleted. data 0 stands for null.
CacheGet(cache, key, now) ==
    IF ~cache[key].present THEN [cache |-> cache, data |-> 0]
    ELSE IF now - cache[key].timestamp > Ttl
    THEN [cache |-> [cache EXCEPT ![key] = NoEntry], data |-> 0]
    ELSE [cache |-> cache, data |-> cache[key].data]

\* DataCache.set
CacheSet(cache, key, data, now) ==
    [cache EXCEPT ![key] = [present |-> TRUE, data |-> data, timestamp |-> now]]

\* What loadWorkItems returns for a file once the cache has nothing.
LoadFromDisk(file) ==
    IF ~file.exists THEN [kind |-> "Err", data |-> 0, error |-> "not found"]
    ELSE IF file.content = "garbage"
    THEN [kind |-> "Err", data |-> 0, error |-> "parse"]
    ELSE IF file.content = "object"
    THEN [kind |-> "Err", data |-> 0, error |-> "not an array"]
    ELSE IF file.content = "emptyArray"
    THEN [kind |-> "Err", data |-> 0, error |-> "empty"]
    ELSE [kind |-> "Ok", data |-> file.payload, error |-> ""]

\* loadWorkItems(filePath)
LoadWorkItems(filePath) ==
    LET got == CacheGet(workItemsCache, filePath, dateNow)
        read == LoadFromDisk(fileSystem[filePath])
        returned == IF got.data # 0
                    THEN [kind |-> "Ok", data |-> got.data, error |-> ""]
                    ELSE read
    IN  /\ workItemsCache' =
              IF got.data = 0 /\ read.kind = "Ok"
              THEN CacheSet(got.cache, filePath, read.data, dateNow)
              ELSE got.cache
        /\ loadResult' = [kind |-> returned.kind, path |-> filePath,
                          data |-> returned.data, error |-> returned.error,
                          existed |-> fileSystem[filePath].exists,
                          at |-> dateNow]
        /\ UNCHANGED <<fileSystem, dateNow>>
        /\ UNCHANGED notLoadVars

LoadCall == \E filePath \in Paths : LoadWorkItems(filePath)

\* The environment: a file is written, replaced or deleted; time passes.
FileChange ==
    /\ \E p \in Paths : \E f \in FileStates :
          /\ f # fileSystem[p]
          /\ fileSystem' = [fileSystem EXCEPT ![p] = f]
    /\ UNCHANGED <<workItemsCache, dateNow, loadResult>>
    /\ UNCHANGED notLoadVars

Tick ==
    /\ dateNow < MaxTicks * TickMs
    /\ dateNow' = dateNow + TickMs
    /\ UNCHANGED <<fileSystem, workItemsCache, loadResult>>
    /\ UNCHANGED notLoadVars

InitLoad ==
    /\ fileSystem \in [Paths -> FileStates]
    /\ workItemsCache = [p \in Paths |-> NoEntry]
    /\ dateNow = 0
    /\ loadResult = NoLoad
    /\ TimelineIdle /\ WipIdle /\ SprintIdle /\ TrendIdle /\ StatsIdle /\ OrchIdle /\ CycleIdle
    /\ RerunIdle
    /\ PageIdle

NextLoad == LoadCall \/ FileChange \/ Tick

SpecLoad == InitLoad /\ [][NextLoad]_vars

\* ------------------------------------------------------------- cycle time
\* analyzeCycleTime in its two versions: the loop over all work items, and
\* the pre-filter of the completed items followed by a single pass.

CycleItem(state, created, closed, vstsClosed, assignedTo, type) ==
    [state |-> state, createdDate |-> created, closedDate |-> closed,
     vstsClosedDate |-> vstsClosed, assignedTo |-> assignedTo,
     workItemType |-> type]

\* extractField(item, 'System.ClosedDate')
\*    || extractField(item, 'Microsoft.VSTS.Common.ClosedDate')
ClosedDateOf(item) ==
    IF item.closedDate.kind # "missing" THEN item.closedDate
    ELSE item.vstsClosedDate

\* extractField(item, 'System.WorkItemType') || 'Unknown'
WorkItemTypeOf(item) == IF item.workItemType = "" THEN "Unknown" ELSE item.workItemType

\* getMonth: dateStr.substring(0, 7), null for no string. Times before 740
\* are days of February 2025, the others days of March.
getMonth(dateStr) ==
    IF dateStr.kind = "missing" THEN ""
    ELSE IF dateStr.kind = "garbage" THEN "not-a-d"
    ELSE IF dateStr.time < 740 THEN "2025-02" ELSE "2025-03"

\* table[key].push(v), after  if (!table[key]) table[key] = []
PushTime(table, key, v) ==
    Put(table, key, Append(IF HasKey(table, key) THEN Get(table, key) ELSE <<>>, v))

\* The three pushes both versions make for an item with a cycle time.
Collect(acc, roster, cycleTimeDays, assignedName, workItemType, month) ==
    [byMember |-> IF Includes(roster, assignedName)
                  THEN PushTime(acc.byMember, assignedName, cycleTimeDays)
                  ELSE acc.byMember,
     byMonth |-> IF month # ""
                 THEN PushTime(acc.byMonth, month, cycleTimeDays)
                 ELSE acc.byMonth,
     byType |-> PushTime(acc.byType, workItemType, cycleTimeDays)]

\* for (const member of teamMemberNames) cycleTimesByMember[member] = []
RECURSIVE InitialByMember(_)
InitialByMember(roster) ==
    IF Len(roster) = 0 THEN <<>>
    ELSE Put(InitialByMember(SubSeq(roster, 1, Len(roster) - 1)),
             roster[Len(roster)], <<>>)

InitialTimes(roster) ==
    [byMember |-> InitialByMember(roster), byMonth |-> <<>>, byType |-> <<>>]

\* The original: the body of  for (const item of workItems)  with its
\* three continue statements.
OriginalItem(acc, roster, item) ==
    LET createdDate == item.createdDate
        closedDate == ClosedDateOf(item)
        created == parseDate(createdDate)
        closed == parseDate(closedDate)
    IN  IF item.state = "" \/ item.state \notin {"Done", "5 - Done", "Closed"}
        THEN acc
        ELSE IF createdDate.kind = "missing" \/ closedDate.kind = "missing"
        THEN acc
        ELSE IF created.tag = "null" \/ closed.tag = "null"
        THEN acc
        ELSE Collect(acc, roster, DaysBetween(created, closed),
                     getAssignedToName(item.assignedTo), WorkItemTypeOf(item),
                     getMonth(createdDate))

RECURSIVE OriginalLoop(_, _, _)
OriginalLoop(acc, roster, items) ==
    IF Len(items) = 0 THEN acc
    ELSE OriginalLoop(OriginalItem(acc, roster, Head(items)), roster, Tail(items))

\* The pre-filter, with 'Done' as the only completed state.
CompletedItemsDoneOnly(items) ==
    SelectSeq(items, LAMBDA item : item.state # "" /\ item.state \in {"Done"})

\* The optimized version: workItems.filter(state && completedStates.has(state))
CompletedItems(items) ==
    SelectSeq(items, LAMBDA item :
        item.state # "" /\ item.state \in {"Done", "5 - Done", "Closed"})

\* completedItems.map(...): null, or the item's dates and computed fields.
WithDates(item) ==
    LET createdDate == item.createdDate
        closedDate == ClosedDateOf(item)
        created == parseDate(createdDate)
        closed == parseDate(closedDate)
        null == [isNull |-> TRUE, cycleTimeDays |-> Num(0), assignedName |-> "",
                 workItemType |-> "", month |-> ""]
    IN  IF createdDate.kind = "missing" \/ closedDate.kind = "missing" THEN null
        ELSE IF created.tag = "null" \/ closed.tag = "null" THEN null
        ELSE [isNull |-> FALSE,
              cycleTimeDays |-> DaysBetween(created, closed),
              assignedName |-> getAssignedToName(item.assignedTo),
              workItemType |-> WorkItemTypeOf(item),
              month |-> getMonth(createdDate)]

\* .map(...).filter(Boolean)
ItemsWithDates(items) ==
    SelectSeq([k \in 1..Len(items) |-> WithDates(items[k])],
              LAMBDA e : ~e.isNull)

RECURSIVE SinglePass(_, _, _)
SinglePass(acc, roster, entries) ==
    IF Len(entries) = 0 THEN acc
    ELSE LET e == Head(entries)
         IN  SinglePass(Collect(acc, roster, e.cycleTimeDays, e.assignedName,
                                e.workItemType, e.month),
                        roster, Tail(entries))

\* calculateStats(times) of cycle times. With a NaN among them the order
\* the comparator a - b leaves is the engine's, the same for the same
\* array: the statistics then stand as what the engine makes of the array.
CycleStats(times) ==
    IF \E k \in 1..Len(times) : times[k].nan
    THEN [ofArray |-> times, avg |-> NaN, median |-> 0, min |-> 0, max |-> 0,
          count |-> Len(times)]
    ELSE LET st == calculateStats([k \in 1..Len(times) |-> times[k].num])
         IN  [ofArray |-> <<>>, avg |-> st.avg, median |-> st.median,
              min |-> st.min, max |-> st.max, count |-> st.count]

\* Object.entries(table) with  if (times.length >= atLeast): the statistics
\* of the entries that have enough samples, with or without min and max.
StatsOfTable(table, atLeast, withMinMax) ==
    LET kept == SelectSeq(table, LAMBDA e : Len(e.val) >= atLeast)
    IN  [j \in 1..Len(kept) |->
            LET st == CycleStats(kept[j].val)
            IN  [key |-> kept[j].key,
                 val |-> IF withMinMax THEN st
                         ELSE [st EXCEPT !.min = 0, !.max = 0]]]

\* byType needs 3 samples, byMember and byMonth one.
MinTypeSamples == 3

CycleResultOf(times) ==
    [byMember |-> StatsOfTable(times.byMember, 1, TRUE),
     byMonth |-> StatsOfTable(times.byMonth, 1, FALSE),
     byType |-> StatsOfTable(times.byType, MinTypeSamples, FALSE)]

analyzeCycleTimeOriginal(items, roster) ==
    CycleResultOf(OriginalLoop(InitialTimes(roster), roster, items))

analyzeCycleTimeOptimized(items, roster) ==
    CycleResultOf(SinglePass(InitialTimes(roster), roster,
                             ItemsWithDates(CompletedItems(items))))

AnalyzeOriginal ==
    /\ cyclePc = "original"
    /\ originalResult' = analyzeCycleTimeOriginal(cycleItems, cycleRoster)
    /\ cyclePc' = "optimized"
    /\ UNCHANGED <<cycleItems, cycleRoster, optimizedResult>>
    /\ UNCHANGED notCycleVars

AnalyzeOptimized ==
    /\ cyclePc = "optimized"
    /\ optimizedResult' = analyzeCycleTimeOptimized(cycleItems, cycleRoster)
    /\ cyclePc' = "done"
    /\ UNCHANGED <<cycleItems, cycleRoster, originalResult>>
    /\ UNCHANGED notCycleVars

\* At most MaxCycleItems work items, each of one of these kinds.
MaxCycleItems == 3

CycleItemKinds ==
    {CycleItem("Done", IsoDateStr(738), IsoDateStr(741), NoDateStr, Person("Ann"), "Bug"),
     CycleItem("Done", IsoDateStr(740), IsoDateStr(745), NoDateStr, Person("Ann"), "Bug"),
     CycleItem("Closed", IsoDateStr(740), NoDateStr, IsoDateStr(744), Person("Bob"), "Bug"),
     CycleItem("5 - Done", IsoDateStr(740), IsoDateStr(743), IsoDateStr(745), Person(""), ""),
     CycleItem("Active", IsoDateStr(740), IsoDateStr(741), NoDateStr, Person("Ann"), "Bug"),
     CycleItem("", IsoDateStr(740), IsoDateStr(741), NoDateStr, Person("Ann"), "Task"),
     CycleItem("Done", NoDateStr, IsoDateStr(741), NoDateStr, Person("Ann"), "Bug"),
     CycleItem("Done", IsoDateStr(740), NoDateStr, NoDateStr, Person("Bob"), "Bug"),
     CycleItem("Done", BadDateStr, IsoDateStr(744), NoDateStr, Person("Zed"), "Task")}

InitCycle ==
    /\ cycleItems \in SeqsUpTo(CycleItemKinds, MaxCycleItems)
    /\ cycleRoster \in {<<>>, <<"Ann">>, <<"Bob", "Ann">>}
    /\ cyclePc = "original"
    /\ originalResult = NoCycleResult
    /\ optimizedResult = NoCycleResult
    /\ TimelineIdle /\ WipIdle /\ SprintIdle /\ TrendIdle /\ StatsIdle /\ OrchIdle
    /\ RerunIdle
    /\ PageIdle
    /\ LoadIdle

NextCycle == AnalyzeOriginal \/ AnalyzeOptimized

SpecCycle == InitCycle /\ [][NextCycle]_vars

\* ------------------------------------------------------------- properties
\* The events of a work item, as positions of the input array.
EventsOf(item) ==
    {k \in 1..Len(workItemUpdates) : workItemUpdates[k].workItemId = item.id}

\* The last iteration of a metric's loop built and folded a timeline.
Folded(local) == local.outcome \in {"zero", "included", "notPositive"}

\* A whole number of days d with 0 <= d <= 365.
InRange(d) == ~d.nan /\ d.den = 1 /\ 0 <= d.num /\ d.num <= MaxDays

\* The durations of all intervals of a timeline: consecutive entries, then
\* the last entry to now.
IntervalDays(tl) ==
    [i \in 1..Len(tl) |->
        IF i < Len(tl) THEN DaysBetween(tl[i].startDate, tl[i + 1].startDate)
        ELSE DaysBetween(tl[i].startDate, ValidDate(Now))]

\* C1: in time-in-state and in flow-efficiency, the durations added to an
\* item's totals are exactly those of its intervals (between consecutive
\* entries, and from the last entry to now) that are a whole number of days
\* between 0 and 365; any other interval adds nothing.
C1_OnlyPlausibleIntervalsAdded ==
    /\ Folded(tisLocal) =>
          tisLocal.fold.added = SelectSeq(IntervalDays(tisLocal.stateTimeline), InRange)
    /\ Folded(feLocal) =>
          feLocal.flow.added = SelectSeq(IntervalDays(feLocal.stateTimeline), InRange)

\* The first entry of a timeline is the initial state (the new value of a
\* revision-1 event) stamped with the creation timestamp of the item.
StartsAtCreation(local) ==
    /\ local.item.createdDate.kind # "missing"
    /\ local.stateTimeline[1].startDate = parseDate(local.item.createdDate)
    /\ \E k \in EventsOf(local.item) :
          /\ workItemUpdates[k].rev = 1
          /\ HasNewValue(workItemUpdates[k])
          /\ workItemUpdates[k].newValue = local.stateTimeline[1].state

\* C2: for every work item included in a time-in-state or flow-efficiency
\* result, the timeline starts with the initial state at the creation time.
C2_TimelineStartsAtCreation ==
    /\ tisLocal.outcome = "included" => StartsAtCreation(tisLocal)
    /\ feLocal.outcome = "included" => StartsAtCreation(feLocal)

\* No entry of the timeline is earlier than an entry produced before it
\* (an Invalid Date is not comparable, so it is earlier than nothing).
NonDecreasing(tl) ==
    \A i, j \in 1..Len(tl) :
       i < j => ~Lt(getTime(tl[j].startDate), getTime(tl[i].startDate))

\* C3 as stated: a timeline of at least 2 entries has non-decreasing
\* timestamps in the order produced.
C3_TimelineMonotonic ==
    Len(tisLocal.stateTimeline) >= 2 => NonDecreasing(tisLocal.stateTimeline)

\* The state-transition events of the item carry timestamps that are
\* non-decreasing in revision order (equal revisions in input order), and
\* none is earlier than the creation timestamp.
EventsOrdered(item) ==
    LET T == {k \in EventsOf(item) : IsTransition(workItemUpdates[k])}
        time(k) == getTime(parseDate(workItemUpdates[k].revisedDate))
        before(a, b) == \/ workItemUpdates[a].rev < workItemUpdates[b].rev
                        \/ workItemUpdates[a].rev = workItemUpdates[b].rev /\ a < b
    IN  /\ \A a, b \in T : before(a, b) => ~Lt(time(b), time(a))
        /\ \A a \in T : ~Lt(time(a), getTime(parseDate(item.createdDate)))

\* C3 amended: the timeline is non-decreasing whenever the transition events
\* are ordered in time as they are by revision, and none precedes creation.
C3_MonotonicWhenEventsOrdered ==
    (Len(tisLocal.stateTimeline) >= 2 /\ EventsOrdered(tisLocal.item))
        => NonDecreasing(tisLocal.stateTimeline)

\* A timeline of three dated entries, strictly increasing, built from events
\* that the input array lists out of revision order.
C3_Witness ==
    /\ Len(tisLocal.stateTimeline) >= 3
    /\ EventsOrdered(tisLocal.item)
    /\ \A i \in 1..(Len(tisLocal.stateTimeline) - 1) :
          Lt(getTime(tisLocal.stateTimeline[i].startDate),
             getTime(tisLocal.stateTimeline[i + 1].startDate))
    /\ \E a, b \in EventsOf(tisLocal.item) :
          /\ a < b
          /\ workItemUpdates[a].rev > workItemUpdates[b].rev
          /\ IsTransition(workItemUpdates[a])
          /\ IsTransition(workItemUpdates[b])

\* C4: an update event whose timestamp is missing or unparsable adds no
\* entry: the timeline has the seed, if any, and one entry for every
\* transition event with a parsable timestamp.
C4_BadTimestampAddsNoEntry ==
    tisLocal.outcome \in {"short", "zero", "included"} =>
       Len(tisLocal.stateTimeline) =
          Len(SeedEntries(tisLocal.item, updatesByItem(workItemUpdates, tisLocal.item.id)))
          + Cardinality({k \in EventsOf(tisLocal.item) :
                            /\ IsTransition(workItemUpdates[k])
                            /\ workItemUpdates[k].revisedDate.kind = "iso"})

\* The timeline the builder derives for a work item of the input.
TimelineOf(item) == stateTimeline(item, updatesByItem(workItemUpdates, item.id))

IsMember(item) == Includes(teamMemberNames, getAssignedToName(item.assignedTo))

InTimeInState(id) == \E n \in 1..Len(workItemBreakdowns) : workItemBreakdowns[n].id = id

InFlowEfficiency(id) ==
    \E n \in 1..Len(workItemEfficiencies) : workItemEfficiencies[n].id = id

\* C5: when both metrics have run, no work item whose timeline has fewer
\* than 2 entries is in their results, and every other work item of a team
\* member that accumulated a positive duration is in both, wherever it
\* stands in the input.
C5_ShortTimelineSkipped ==
    pc = "done" =>
       \A k \in 1..Len(workItems) :
          LET item == workItems[k]
              tl == TimelineOf(item)
          IN  /\ Len(tl) < 2 =>
                    ~InTimeInState(item.id) /\ ~InFlowEfficiency(item.id)
              /\ (Len(tl) >= 2 /\ IsMember(item)
                    /\ Gt(FoldTimeline(tl).totalCycleTime, Num(0))) =>
                    InTimeInState(item.id) /\ InFlowEfficiency(item.id)

\* Both metrics ran over a member's item with a one-entry timeline and
\* reported a later item.
C5_Witness ==
    /\ pc = "done"
    /\ \E j, k \in 1..Len(workItems) :
          /\ j < k
          /\ IsMember(workItems[j])
          /\ Len(TimelineOf(workItems[j])) = 1
          /\ InTimeInState(workItems[k].id)
          /\ InFlowEfficiency(workItems[k].id)

\* C6: a step of the time-in-state loop that excludes its item for a total
\* duration of 0 changes nothing in the samples behind the per-member and
\* overall averages, nor in byWorkItem.
C6_ZeroItemHasNoEffect ==
    [][(pc = "timeInState" /\ idx' = idx + 1 /\ tisLocal'.outcome = "zero") =>
          /\ allStatesTimes' = allStatesTimes
          /\ memberTimeInStates' = memberTimeInStates
          /\ workItemBreakdowns' = workItemBreakdowns]_vars

\* The timeline has the seed, if any, and one entry for each event of
\* revision greater than 1 that carries an old and a new state value and a
\* timestamp.
OnlyLaterRevisionsAppend(local) ==
    Len(local.stateTimeline) =
       Len(SeedEntries(local.item, updatesByItem(workItemUpdates, local.item.id)))
       + Cardinality({k \in EventsOf(local.item) :
                         /\ workItemUpdates[k].rev > 1
                         /\ IsTransition(workItemUpdates[k])
                         /\ workItemUpdates[k].revisedDate.kind # "missing"})

FirstMaxAt(m, j) ==
    /\ \A k \in 1..Len(m) : Le(m[k].val, m[j].val)
    /\ \A k \in 1..(j - 1) : ~StrictEq(m[k].val, m[j].val)

\* C8: for every item of byWorkItem, longestState is the first state of the
\* breakdown that holds the maximum of the accumulated days, and
\* longestStateDays is that maximum.
C8_LongestStateIsFirstMaximum ==
    \A n \in 1..Len(workItemBreakdowns) :
       LET b == workItemBreakdowns[n]
       IN  \E j \in 1..Len(b.stateBreakdown) :
              /\ b.stateBreakdown[j].key = b.longestState
              /\ b.stateBreakdown[j].val = b.longestStateDays
              /\ FirstMaxAt(b.stateBreakdown, j)

\* The named state has the highest of the averages, when there are any.
HighestAverage(avgs, state) ==
    Len(avgs) > 0 =>
       \E j \in 1..Len(avgs) :
          /\ avgs[j].key = state
          /\ \A k \in 1..Len(avgs) : Le(avgs[k].val, avgs[j].val)

\* C9: in the time-in-state result, every member's bottleneckState has the
\* highest of the member's per-state averages, and commonBottleneck the
\* highest of the averages over the pooled samples.
C9_BottleneckIsHighestAverage ==
    pc \in {"flowEfficiency", "done"} =>
       /\ \A m \in DOMAIN tisResult.byMember :
             HighestAverage(tisResult.byMember[m].avgTimeInStates,
                            tisResult.byMember[m].bottleneckState)
       /\ HighestAverage(tisResult.avgTimeByState, tisResult.commonBottleneck)

\* C10: every reported per-item efficiency is between 0 and 100; it is 0
\* when the item has no active time and 100 when it has no wait time.
C10_EfficiencyBounds ==
    \A n \in 1..Len(workItemEfficiencies) :
       LET e == workItemEfficiencies[n]
       IN  /\ Ge(e.efficiencyPct, Num(0))
           /\ Le(e.efficiencyPct, Num(100))
           /\ StrictEq(e.activeTime, Num(0)) => e.efficiencyPct = Num(0)
           /\ StrictEq(e.waitTime, Num(0)) => e.efficiencyPct = Num(100)

\* One run reports an item with wait time only at 0 and an item with active
\* time only at 100.
C10_Witness ==
    \E a, b \in 1..Len(workItemEfficiencies) :
       /\ workItemEfficiencies[a].efficiencyPct = Num(0)
       /\ Gt(workItemEfficiencies[a].waitTime, Num(0))
       /\ workItemEfficiencies[b].efficiencyPct = Num(100)
       /\ Gt(workItemEfficiencies[b].activeTime, Num(0))

\* The per-item percentages reported for a member, in byWorkItem order.
PercentagesOf(m) ==
    LET mine == SelectSeq(workItemEfficiencies, LAMBDA e : e.assignedTo = m)
    IN  [j \in 1..Len(mine) |-> mine[j].efficiencyPct]

RECURSIVE OwnershipFrom(_, _, _, _, _, _)
OwnershipFrom(id, updates, i, state, assignee, open) ==
    IF i > Len(updates)
    THEN IF open.tag # "null" THEN <<Period(id, assignee, open, NullDate)>> ELSE <<>>
    ELSE LET u == updates[i]
             date == parseDate(u.revisedDate)
             newState == IF u.hasState THEN u.newValue ELSE state
             newAssignee == IF u.hasAssign THEN u.assignNew.name ELSE assignee
             held == open.tag # "null"
             holds == newState \in wipActiveStates /\ newAssignee # ""
             closes == held /\ (~holds \/ newAssignee # assignee)
             opens == holds /\ (~held \/ newAssignee # assignee)
         IN  (IF closes THEN <<Period(id, assignee, open, date)>> ELSE <<>>)
             \o OwnershipFrom(id, updates, i + 1, newState, newAssignee,
                   IF opens THEN date ELSE IF closes THEN NullDate ELSE open)

OwnershipSpans(item) ==
    OwnershipFrom(item.id, updatesByItem(wipUpdates, item.id), 1, "", "", NullDate)

Range(seq) == {seq[j] : j \in 1..Len(seq)}

\* The periods of team members among a set of periods.
OfMembers(periods) == {p \in periods : p.assignedTo \in Members}

\* C12: once the item loop has ended, the active periods recorded for the
\* team members are exactly the ownership spans of the items: those during
\* which an item was both in an active state and assigned to the member.
C12_PeriodsAreOwnershipSpans ==
    wipPc \in {"days", "done"} =>
       OfMembers(Range(activePeriods)) =
          OfMembers(UNION {Range(OwnershipSpans(wipItems[k])) : k \in 1..Len(wipItems)})

\* The update event that a step of the update loop processes.
WipEventNow == WipCurrentUpdates[wipEvt]

\* The event reassigns the item from one team member to another and changes
\* nothing else.
IsReassignment(u) ==
    /\ u.hasAssign /\ ~u.hasState
    /\ u.revisedDate.kind = "iso"
    /\ u.assignOld.name \in Members
    /\ u.assignNew.name \in Members
    /\ u.assignOld.name # u.assignNew.name

\* The state the history gives the item just before event u: the new value
\* of the latest earlier revision that changed the state.
StateBefore(u) ==
    LET S == {k \in 1..Len(wipUpdates) :
                 /\ wipUpdates[k].workItemId = u.workItemId
                 /\ wipUpdates[k].hasState
                 /\ wipUpdates[k].rev < u.rev}
    IN  IF S = {} THEN ""
        ELSE wipUpdates[CHOOSE k \in S :
                           \A j \in S : wipUpdates[j].rev <= wipUpdates[k].rev].newValue

Covers(period, d) ==
    /\ period.startDate.tag = "date"
    /\ period.startDate.time <= d
    /\ IF period.endDate.tag = "null" THEN d <= Now
       ELSE period.endDate.tag = "date" /\ d <= period.endDate.time

\* The recorded periods of member m that cover day d, as positions.
CoveringPeriods(m, d) ==
    {x \in 1..Len(activePeriods) :
        activePeriods[x].assignedTo = m /\ Covers(activePeriods[x], d)}

\* The days of the requested range: the start and every whole day after it
\* up to the end.
DaysOfRange ==
    {d \in WipStartDate.time..WipEndDate.time :
        (d - WipStartDate.time) % DayUnits = 0}

\* byDate has one entry for each day of the requested range.
ReportsEachDay ==
    /\ Len(wipResult.byDate) = Cardinality(DaysOfRange)
    /\ {wipResult.byDate[j].date : j \in 1..Len(wipResult.byDate)} = DaysOfRange

MovesIntoSprint(item, k) ==
    /\ sprintUpdates[k].workItemId = item.id
    /\ sprintUpdates[k].hasIter
    /\ Len(sprintUpdates[k].newIter) > 0
    /\ extractSprintName(sprintUpdates[k].newIter) = extractSprintName(item.iterationPath)

FirstMoveIntoSprint(item) ==
    {k \in 1..Len(sprintUpdates) :
        /\ MovesIntoSprint(item, k)
        /\ \A j \in 1..Len(sprintUpdates) :
              MovesIntoSprint(item, j) => sprintUpdates[k].rev <= sprintUpdates[j].rev}

\* The time between the creation of the item and that event exceeds 3 days.
GapExceedsThreeDays(item) ==
    \E k \in FirstMoveIntoSprint(item) :
       /\ item.createdDate.kind = "iso"
       /\ sprintUpdates[k].revisedDate.kind = "iso"
       /\ sprintUpdates[k].revisedDate.time - item.createdDate.time > 3 * DayUnits

SprintMemberItems ==
    {k \in 1..Len(sprintItems) :
        Includes(teamMemberNames, getAssignedToName(sprintItems[k].assignedTo))}

\* C15: a work item is classified as added mid-sprint exactly when the time
\* between its creation and the first update event that moved it into its
\* sprint exceeds 3 days, and as planned otherwise.
C15_UnplannedWhenGapExceedsThreeDays ==
    sprintPc = "done" =>
       \A k \in SprintMemberItems :
          LET item == sprintItems[k]
              d == Get(sprintData, extractSprintName(item.iterationPath))
          IN  /\ item.id \in d.addedItems <=> GapExceedsThreeDays(item)
              /\ item.id \in d.plannedItems <=> ~GapExceedsThreeDays(item)

\* The sprints of a member and the completion rate of the member in each.
SprintsOfMember(m) ==
    {extractSprintName(sprintItems[k].iterationPath) :
        k \in {x \in 1..Len(sprintItems) :
                  getAssignedToName(sprintItems[x].assignedTo) = m}}

MemberRate(m, s) ==
    LET mine == {k \in 1..Len(sprintItems) :
                    /\ getAssignedToName(sprintItems[k].assignedTo) = m
                    /\ extractSprintName(sprintItems[k].iterationPath) = s}
        done == {k \in mine : sprintItems[k].state \in completedStates}
    IN  Rat(Cardinality(done) * 100, Cardinality(mine))

\* C16: for every reported member, bestSprint is one of the member's sprints
\* with the highest completion rate and worstSprint one with the lowest.
C16_BestAndWorstSprint ==
    sprintPc = "done" =>
       \A m \in DOMAIN sprintResult.byMember :
          LET r == sprintResult.byMember[m]
          IN  /\ r.bestSprint \in SprintsOfMember(m)
              /\ r.worstSprint \in SprintsOfMember(m)
              /\ \A s \in SprintsOfMember(m) :
                    /\ Le(MemberRate(m, s), MemberRate(m, r.bestSprint))
                    /\ Ge(MemberRate(m, s), MemberRate(m, r.worstSprint))

\* The trend by exact arithmetic: with sums F and S of the first and second
\* half, of a and b sprints, S/b > 1.1 * F/a is 10*S*a > 11*F*b, and
\* S/b < 0.9 * F/a is 10*S*a < 9*F*b.
ExactTrend(vs) ==
    IF Len(vs) < 4 THEN "stable"
    ELSE LET a == Len(vs) \div 2
             b == Len(vs) - a
             F == SumInts(SubSeq(vs, 1, a))
             S == SumInts(SubSeq(vs, a + 1, Len(vs)))
         IN  IF 10 * S * a > 11 * F * b THEN "increasing"
             ELSE IF 10 * S * a < 9 * F * b THEN "decreasing"
             ELSE "stable"

\* C17: the velocity trend is 'increasing' when the mean of the second half
\* is greater than 1.1 times the mean of the first half, 'decreasing' when
\* it is less than 0.9 times that mean, 'stable' otherwise, and 'stable'
\* with fewer than 4 sprints.
C17_TrendThresholds ==
    velocityTrend # "none" => velocityTrend = ExactTrend(velocities)

\* The trend that a run over the given work items reports.
TrendOfItems(items) ==
    VelocityTrend(VelocitiesOf(BySprint(SprintDataOf(items, sprintUpdates, <<>>))))

\* C18: the reported trend is the same for every ordering of the same work
\* items in the input array.
C18_TrendIndependentOfItemOrder ==
    sprintPc = "done" =>
       \A items \in Orderings(sprintItems) :
          TrendOfItems(items) = sprintResult.overall.velocityTrend

\* ------------------------------------------------- calculateStats properties
\* The ascending orderings of a sample.
AscendingOrderings(vs) ==
    {s \in Orderings(vs) : \A j \in 1..(Len(s) - 1) : s[j] <= s[j + 1]}

\* C19: for a non-empty sample of n numbers calculateStats returns as median
\* the element at index floor(n/2), counted from 0, of the ascending-sorted
\* sample: the middle element when n is odd and the upper of the two middle
\* elements when n is even.
C19_MedianIsUpperMiddle ==
    (statsPc = "done" /\ Len(values) > 0) =>
       LET n == Len(values)
       IN  /\ \A s \in AscendingOrderings(values) : stats.median = s[(n \div 2) + 1]
           /\ n % 2 = 1 =>
                 /\ Cardinality({j \in 1..n : values[j] < stats.median}) <= (n - 1) \div 2
                 /\ Cardinality({j \in 1..n : values[j] > stats.median}) <= (n - 1) \div 2
           /\ n % 2 = 0 =>
                 /\ Cardinality({j \in 1..n : values[j] < stats.median}) <= n \div 2
                 /\ Cardinality({j \in 1..n : values[j] > stats.median}) <= (n \div 2) - 1

\* An even sample given out of order whose two middle elements differ: the
\* four numbers 1, 2, 3, 4 with median 3.
C19_Witness ==
    /\ statsPc = "done"
    /\ values = <<4, 1, 3, 2>>
    /\ stats.median = 3

\* ------------------------------------------------------ orchestrator properties
\* The keys of the deep metrics in the analysis result.
DeepKeys == {"timeInState", "dailyWip", "flowEfficiency", "sprintAnalysis"}

\* Work-item history is available and contains at least one update event.
HistoryUsable == historyFile.exists /\ Len(historyFile.records) >= 1

\* C20: the deep metrics are placed in the analysis result only if work-item
\* history is available and contains at least one update event; otherwise
\* none of them appears in the result, whichever metrics were requested.
C20_DeepMetricsOnlyWithHistory ==
    orchPc \in {"select", "base", "deep", "save", "done", "rejected"} =>
       /\ result.keys \cap DeepKeys # {} => HistoryUsable
       /\ output.keys \cap DeepKeys # {} => HistoryUsable

\* A finished run that was asked for deep metrics by name, found a history
\* file without update events, and reports no deep metric.
C20_Witness ==
    /\ orchPc = "done"
    /\ historyFile.exists
    /\ Len(historyFile.records) = 0
    /\ "timeInState" \in metricsToRun
    /\ "sprint_analysis" \in metricsToRun
    /\ "cycleTime" \in result.keys
    /\ result.keys \cap DeepKeys = {}

\* The modules that the run calls or would call: requested, and for a deep
\* metric behind an open history gate.
Called ==
    {m \in baseMetrics : Requested(metricsToRun, m)}
    \cup {m \in DeepKeys : HistoryUsable /\ Requested(metricsToRun, m)}

\* C21: if one metric module throws during a run, the metrics computed before
\* it and the later metrics, whose inputs do not depend on it, are still
\* included in the result of the run.
C21_OtherMetricsSurviveThrow ==
    orchPc \in {"done", "rejected"} =>
       \A m \in Called \ {thrower} : m \in output.keys

DistinctRevs(updates) ==
    \A i, j \in 1..Len(updates) :
       (i # j /\ updates[i].workItemId = updates[j].workItemId)
          => updates[i].rev # updates[j].rev

\* The second run, on the events in another order, has finished with the
\* results of the first.
SameTimelineResults ==
    (runNo = 2 /\ pc = "done" /\ wipPc = "off" /\ sprintPc = "off") =>
       /\ tisResult = firstRun.tis
       /\ workItemBreakdowns = firstRun.breakdowns
       /\ feResult = firstRun.fe
       /\ workItemEfficiencies = firstRun.efficiencies

SameWipResults == (runNo = 2 /\ wipPc = "done") => wipResult = firstRun.wip

\* The sprint analysis of the events in any other order gives the result of
\* the finished run.
SameSprintResults ==
    sprintPc = "done" =>
       \A updates \in Orderings(sprintUpdates) :
          SprintResultOf(sprintItems, SprintDataOf(sprintItems, updates, <<>>))
             = sprintResult

UnlimitedCall == ~MaxResultsSet(pageOptions) /\ serverFault.at = 0

\* C24: without maxResults, queryAllWorkItemsById returns every matching
\* work item exactly once: none is missing and none comes twice.
C24_EveryMatchExactlyOnce ==
    (pagePc = "done" /\ UnlimitedCall) =>
        /\ IdsOf(allWorkItems) = IdsOf(matching)
        /\ Len(allWorkItems) = Len(matching)

\* The ids of the NOT IN clause of the k-th request of a call without
\* maxResults whose loop is still running: every batch before it was full.
NotInIdsAt(k) ==
    NotInIds(SubSeq(excludedIds, 1, (k - 1) * BatchSizeOf(pageOptions)))

\* C28: without maxResults, queryAllWorkItemsById stops after finitely many
\* requests. The server answers a request it has answered before as it did
\* then, and the loop goes on according to the answer alone, so a loop that
\* stops never makes the same request twice.
C28_LoopNeverRepeatsRequest ==
    (pagePc = "loop" /\ UnlimitedCall /\ hasMore) =>
        \A k \in 1..iteration :
            IdsOf(NotInIdsAt(k)) # IdsOf(NotInIds(excludedIds))

\* C25: on any day, a work item is counted in the daily WIP of at most one
\* member, also on the day on which it is reassigned while active.
C25_ItemCountedForOneMemberPerDay ==
    \A j \in 1..Len(dailySnapshots) : \A m1, m2 \in Members :
        m1 # m2 =>
            dailySnapshots[j].members[m1] \cap dailySnapshots[j].members[m2] = {}

\* The days of a state in a state breakdown, and in a table of samples.
BreakdownDays(stateBreakdown, state) ==
    IF HasKey(stateBreakdown, state) THEN Get(stateBreakdown, state) ELSE Num(0)

SampleDays(states, state) ==
    IF HasKey(states, state) THEN Sum(Get(states, state)) ELSE Num(0)

\* The days of a state in the breakdowns of the reported items of the
\* members of a set.
ReportedDays(members, state) ==
    Sum([n \in 1..Len(workItemBreakdowns) |->
            IF workItemBreakdowns[n].assignedTo \in members
            THEN BreakdownDays(workItemBreakdowns[n].stateBreakdown, state)
            ELSE Num(0)])

ReportedStates ==
    UNION {{workItemBreakdowns[n].stateBreakdown[k].key :
               k \in 1..Len(workItemBreakdowns[n].stateBreakdown)} :
           n \in 1..Len(workItemBreakdowns)}

\* C26: every day counted in the stateBreakdown of a reported item, the
\* trailing interval up to now included, is also counted in the samples
\* behind the avgTimeInStates of its assignee and behind avgTimeByState.
C26_BreakdownDaysAreSampled ==
    pc \in {"flowEfficiency", "done"} =>
        \A state \in ReportedStates :
            /\ \A m \in Members :
                  LET days == ReportedDays({m}, state)
                      sampled == SampleDays(memberTimeInStates[m].states, state)
                  IN  days = sampled \/ Le(days, sampled)
            /\ LET days == ReportedDays(Members, state)
                   sampled == SampleDays(allStatesTimes, state)
               IN  days = sampled \/ Le(days, sampled)

\* C27: on the same inputs and the same now, time-in-state and
\* flow-efficiency report the same work items, and the totalTime of an item
\* in flow-efficiency is its totalCycleTime in time-in-state.
C27_SameItemsSameTotal ==
    pc = "done" =>
        /\ {workItemEfficiencies[n].id : n \in 1..Len(workItemEfficiencies)}
              = {workItemBreakdowns[n].id : n \in 1..Len(workItemBreakdowns)}
        /\ \A n \in 1..Len(workItemEfficiencies) :
           \A k \in 1..Len(workItemBreakdowns) :
              workItemEfficiencies[n].id = workItemBreakdowns[k].id =>
                 workItemEfficiencies[n].totalTime
                    = workItemBreakdowns[k].totalCycleTime

\* loadWorkItems has been called, and the file was not there at the call.
CalledWithoutFile == loadResult.kind # "none" /\ ~loadResult.existed

\* C29 as stated: loadWorkItems returns Err, never Ok, when the file does
\* not exist at the time of the call, whatever calls came before.
C29_ErrWhenFileMissing ==
    CalledWithoutFile => loadResult.kind = "Err"

\* C29 amended: with the file missing at the time of the call, loadWorkItems
\* returns Ok exactly when the cache holds the work items read from this
\* path no more than Ttl before the call, and then it returns those;
\* otherwise it returns the error of the missing file.
C29_ErrWhenFileMissingAndNotCached ==
    CalledWithoutFile =>
        LET entry == workItemsCache[loadResult.path]
        IN  IF entry.present
            THEN /\ loadResult.at - entry.timestamp <= Ttl
                 /\ loadResult.at - entry.timestamp >= 0
                 /\ loadResult.kind = "Ok"
                 /\ loadResult.data = entry.data
            ELSE /\ loadResult.kind = "Err"
                 /\ loadResult.error = "not found"

\* A call for a deleted file, exactly Ttl after its work items were read,
\* returned them.
C29_Witness ==
    /\ CalledWithoutFile
    /\ loadResult.kind = "Ok"
    /\ workItemsCache[loadResult.path].present
    /\ loadResult.at - workItemsCache[loadResult.path].timestamp = Ttl

\* C30: for every list of work items and every roster, the optimized
\* analyzeCycleTime returns the byMember, byMonth and byType statistics of
\* the original, loop-based analyzeCycleTime.
C30_OptimizedEqualsOriginal ==
    cyclePc = "done" => optimizedResult = originalResult

\* Both versions have run on three items of which the pre-filter drops one
\* and the date check another; the results hold a member and a month.
C30_Witness ==
    /\ cyclePc = "done"
    /\ Len(cycleItems) = 3
    /\ Len(CompletedItems(cycleItems)) = 2
    /\ Len(ItemsWithDates(CompletedItems(cycleItems))) = 1
    /\ Len(originalResult.byMember) = 1
    /\ Len(originalResult.byMonth) = 1

====
